---- MODULE Spec2Model ----
(***************************************************************************)
(* Model of the VFS dispatch layer (src/src/vfs.c, src/src/vfs.h): the     *)
(* drive table and path resolution, the mount manager with its lifecycle   *)
(* events, file handles, directory handles and the find helpers.           *)
(*                                                                         *)
(* Strings are sequences of one-character strings; a position past the end *)
(* of a sequence reads as NUL, the C terminator.  A NULL pointer passed as *)
(* a path is the value NullPath.  Table positions are the C indices        *)
(* 0..N-1; position i is element i+1 of the TLA+ sequence.                 *)
(***************************************************************************)
EXTENDS Integers, Sequences, FiniteSets, TLC

VARIABLES
    table,      \* vFileSystem[]: the static configuration (drive, type, eventcb)
    index,      \* vFileSystem[i].index   (0 = unmounted, else position + 1)
    namelen,    \* vFileSystem[i].namelen (cached by vfs_init)
    fs,         \* vFileSystem[i].fatfs.fs / lfs.fs: "null", "static" or "heap"
    heapLive,   \* heap blocks this layer allocated for entry i and has not freed
    inited,     \* vfs_init has run
    file,       \* the caller's VfsFile_t
    backendOpen,\* backend file objects opened and not yet closed
    dir,        \* the caller's VfsDir_t
    dirsOpen,   \* backend directory objects opened and not yet closed
    lastCall,   \* observation of the most recent API call
    pure        \* a call of a function without side effects: arguments and result

vars == <<table, index, namelen, fs, heapLive, inited, file, backendOpen, dir, dirsOpen, lastCall, pure>>

(***************************************************************************)
(* Bounds of the model.                                                    *)
(***************************************************************************)
MaxPathLen == 4
MaxLive == 2
MaxOpen == 2
MaxListLen == 2

(***************************************************************************)
(* errno values (newlib <errno.h>) and EDOOFUS from vfs.h.                 *)
(***************************************************************************)
ENOENT == 2
EIO == 5
ENXIO == 6
EBADF == 9
ENOMEM == 12
EBUSY == 16
EEXIST == 17
ENODEV == 19
ENOTDIR == 20
EINVAL == 22
EMFILE == 24
ENOSPC == 28
EROFS == 30
ENOLCK == 46
ETIMEDOUT == 116
EDOOFUS == 88

NUL == "NUL"
NullPath == <<"nullptr">>

(***************************************************************************)
(* C string helpers.                                                       *)
(***************************************************************************)
At(s, k) == IF k >= 1 /\ k <= Len(s) THEN s[k] ELSE NUL

toupper_Identity(c) == c
toupper(c) ==
    CASE c = "a" -> "A"
      [] c = "b" -> "B"
      [] c = "c" -> "C"
      [] c = "t" -> "T"
      [] c = "x" -> "X"
      [] c = "y" -> "Y"
      [] OTHER -> c

tolower(c) ==
    CASE c = "A" -> "a"
      [] c = "B" -> "b"
      [] c = "C" -> "c"
      [] c = "T" -> "t"
      [] c = "X" -> "x"
      [] OTHER -> c

strlen(s) == Len(s)

\* strchr(s, c) != nullptr for a non-NUL c
strchr(s, c) == \E k \in 1..Len(s) : s[k] = c

\* strncmp(a, b, n) == 0 : equal up to n characters or up to a common NUL
RECURSIVE strncmpEq(_, _, _, _)
strncmpEq(a, b, n, k) ==
    IF k > n THEN TRUE
    ELSE IF At(a, k) # At(b, k) THEN FALSE
    ELSE IF At(a, k) = NUL THEN TRUE
    ELSE strncmpEq(a, b, n, k + 1)

strncmp0(a, b, n) == strncmpEq(a, b, n, 1)

\* strncasecmp(a, b, n) == 0
RECURSIVE strncasecmpEq(_, _, _, _)
strncasecmpEq(a, b, n, k) ==
    IF k > n THEN TRUE
    ELSE IF tolower(At(a, k)) # tolower(At(b, k)) THEN FALSE
    ELSE IF At(a, k) = NUL THEN TRUE
    ELSE strncasecmpEq(a, b, n, k + 1)

strncasecmp0_CaseSensitive(a, b, n) == strncmpEq(a, b, n, 1)
strncasecmp0(a, b, n) == strncasecmpEq(a, b, n, 1)

\* strcspn(s, " \x1"): length of the initial segment without ' ' or 0x01
RECURSIVE strcspnFrom(_, _)
strcspnFrom(s, k) ==
    IF k > Len(s) \/ s[k] = " " \/ s[k] = "\\x1" THEN k - 1
    ELSE strcspnFrom(s, k + 1)

strcspn(s) == strcspnFrom(s, 1)

(***************************************************************************)
(* Error translators.                                                      *)
(***************************************************************************)
\* _ff_errno(FRESULT)
ff_errno(err) ==
    LET e == CASE err = 1 -> EIO
               [] err = 2 -> EDOOFUS
               [] err = 3 -> EBUSY
               [] err = 4 -> ENOENT
               [] err = 5 -> ENOTDIR
               [] err = 6 -> EINVAL
               [] err = 7 -> ENOSPC
               [] err = 8 -> EEXIST
               [] err = 9 -> EBADF
               [] err = 10 -> EROFS
               [] err = 11 -> ENODEV
               [] err = 12 -> ENODEV
               [] err = 13 -> ENXIO
               [] err = 14 -> EINVAL
               [] err = 15 -> ETIMEDOUT
               [] err = 16 -> ENOLCK
               [] err = 17 -> ENOMEM
               [] err = 18 -> EMFILE
               [] err = 19 -> EINVAL
               [] OTHER -> 0
    IN  -e

\* _jes_errno(int16_t)
jes_errno(err) ==
    IF err >= 0 THEN err
    ELSE LET e == CASE err = -108 -> ENXIO
                    [] err = -110 -> EINVAL
                    [] err = -111 -> ENOSPC
                    [] err = -113 -> ENOSPC
                    [] err = -124 -> ENOENT
                    [] err = -129 -> EBADF
                    [] err = -139 -> EINVAL
                    [] err = -142 -> EBADF
                    [] err = -143 -> EBADF
                    [] err = -147 -> EBUSY
                    [] err = -148 -> EBUSY
                    [] OTHER -> EIO
         IN  -e

(***************************************************************************)
(* Drive tables: the static configurations the model is checked with.      *)
(***************************************************************************)
DriveA == <<"A", ":">>
DriveLowA == <<"a", ":">>
DriveB == <<"B", ":">>

Entry(d, t, fx, cb, f) == [drive |-> d, type |-> t, fixed |-> fx, eventcb |-> cb, fs0 |-> f]

Tables ==
    { <<Entry(DriveA, "FS_JESFS", TRUE, TRUE, "na")>>,
      <<Entry(DriveA, "FS_FATFS", TRUE, TRUE, "static"),
        Entry(DriveB, "FS_LITTLEFS", FALSE, TRUE, "null")>>,
      <<Entry(DriveA, "FS_FATFS", FALSE, TRUE, "null"),
        Entry(DriveLowA, "FS_JESFS", TRUE, TRUE, "na"),
        Entry(DriveB, "FS_LITTLEFS", TRUE, FALSE, "static")>>,
      <<Entry(DriveA, "FS_LITTLEFS", TRUE, TRUE, "null"),
        Entry(DriveB, "FS_JESFS", TRUE, TRUE, "na")>> }

N == Len(table)
Pos == 0..(N - 1)

\* The paths callers pass.
AllPaths ==
    { <<>>, <<"A", ":">>, <<"/", "x">>,
      <<"A", ":", "/">>, <<"A", ":", "\\">>, <<"A", ":", "x">>,
      <<"A", ":", "/", "x">>, <<"a", ":", "/", "x">>, <<"B", ":", "/", "x">>,
      <<"C", ":", "/", "x">>,
      <<"A", ":", "/", "x", "x">>, <<"/", "x", "/", "x", "x">> }

Paths == {p \in AllPaths : Len(p) <= MaxPathLen}
PathArgs == Paths \cup {NullPath}

(***************************************************************************)
(* _vfs_find_entry                                                         *)
(***************************************************************************)
\* the loop of _vfs_find_entry from position i on; N is returned when the
\* loop runs to the terminating entry
RECURSIVE find_loop(_, _, _, _, _)
find_loop(i, name, force, idx, nl) ==
    IF i >= N THEN N
    ELSE IF strncasecmp0(name, table[i + 1].drive, nl[i]) /\ (force \/ idx[i] = i + 1)
         THEN i
         ELSE find_loop(i + 1, name, force, idx, nl)

\* (i == 1) && (strchr(name, ':') == nullptr): the drive name may be left out
\* if there is only one drive
AllowEmptyDriveAny(i, name) == ~strchr(name, ":")
AllowEmptyDrive(i, name) == i = 1 /\ ~strchr(name, ":")

vfs_find_entry_in(name, force, idx, nl) ==
    IF name = NullPath THEN -ENOENT
    ELSE LET i == find_loop(0, name, force, idx, nl)
         IN  IF i < N THEN i
             ELSE IF AllowEmptyDrive(i, name) THEN 0
             ELSE -ENOENT

vfs_find_entry(name, force) == vfs_find_entry_in(name, force, index, namelen)

(***************************************************************************)
(* 32-bit values and the inode macros of vfs.h.  c holds the configured    *)
(* widths: those vfs.h gives by default, or those of vfs_conf_template.h.  *)
(***************************************************************************)
\* A uint32_t is the set of the positions of its bits that are 1.
UINT32_MAX == 0..31

\* the bits of n, 0 <= n < 2^31
Bits(n) == {k \in 0..30 : (n \div 2^k) % 2 = 1}

\* x << k and x >> k on 32 bits
Shl(x, k) == {b + k : b \in x} \cap UINT32_MAX
Shr(x, k) == {b - k : b \in {c \in x : c >= k}}

INODE_ITEM_BITS(c) == 32 - c.INODE_FOLDER_BITS - c.INODE_STORAGE_BITS
INODE_ITEM_MASK(c) == Shr(UINT32_MAX, c.INODE_FOLDER_BITS + c.INODE_STORAGE_BITS)
INODE_STORAGE_MASK(c) == Shl(UINT32_MAX, INODE_ITEM_BITS(c) + c.INODE_FOLDER_BITS)
INODE_FOLDER_MASK_High(c) == Shr(UINT32_MAX, c.INODE_STORAGE_BITS)
INODE_FOLDER_MASK(c) == Shr(UINT32_MAX, c.INODE_STORAGE_BITS) \cap Shl(UINT32_MAX, INODE_ITEM_BITS(c))
INODE_STORAGE(c, x) == Shr(x, 32 - c.INODE_STORAGE_BITS)
INODE_FOLDER(c, x) == Shr(x \cap INODE_FOLDER_MASK(c), 32 - c.INODE_FOLDER_BITS - c.INODE_STORAGE_BITS)

InodeConfigs ==
    { [INODE_STORAGE_BITS |-> 2, INODE_FOLDER_BITS |-> 10],
      [INODE_STORAGE_BITS |-> 1, INODE_FOLDER_BITS |-> 7] }

(***************************************************************************)
(* Observation record of an API call.                                      *)
(***************************************************************************)
\* a VfsInfo_t: the device, the attribute bits, the other members that
\* hold a value, and the inode under each configuration of the widths;
\* memset(info, 0, sizeof(VfsInfo_t)) gives ZeroInfo
Info(device, attrib, set) ==
    [device |-> device, attrib |-> attrib, set |-> set, inode |-> [c \in InodeConfigs |-> {}]]
ZeroInfo == Info(0, {}, {})

\* out: the VfsInfo_t the call filled in, ZeroInfo for a call that has none
Call(op, path, flag, entry, ret, backend, events) ==
    [op |-> op, path |-> path, flag |-> flag, entry |-> entry, ret |-> ret,
     backend |-> backend, events |-> events, out |-> ZeroInfo]

NoCall == Call("none", NullPath, FALSE, -1, 0, <<>>, <<>>)

Event(i, e, idx) == [entry |-> i, event |-> e, idx |-> idx]

(***************************************************************************)
(* vfs_mount                                                               *)
(***************************************************************************)
\* results the backend mount / unmount primitives can report
MountResults(t) ==
    CASE t = "FS_FATFS" -> {0, 13, 3}        \* FR_OK, FR_NO_FILESYSTEM, FR_NOT_READY
      [] t = "FS_LITTLEFS" -> {0, -84}       \* LFS_ERR_OK, LFS_ERR_CORRUPT
      [] t = "FS_JESFS" -> {0, -108, -107}   \* ok, unknown magic, structure problem
      [] OTHER -> {0}

\* what the environment decides during one vfs_mount call: whether malloc
\* succeeds, what the backend reports, and what malloc_usable_size reads for
\* a pointer that is not a heap block
MountInputs(t) ==
    [mallocOk : BOOLEAN, res : MountResults(t), usable : BOOLEAN]

\* if (vFileSystem[i].fatfs.fs == nullptr): the state is allocated on first use
NeedAllocAlways(p) == TRUE
NeedAlloc(p) == p = "null"

\* vFileSystem[i].index = 0 after a failed backend mount (FAT, LittleFS)
IndexOnMountFail(i) == 0

\* FS_FATFS and FS_LITTLEFS share the shape of the mount / unmount code; they
\* differ in the translation of the backend result
mount_alloc(st, i, mount, in, okret, mname, uname) ==
    IF mount
    THEN LET alloc == NeedAlloc(st.fs[i])
             fs1 == IF alloc THEN (IF in.mallocOk THEN "heap" ELSE "null") ELSE st.fs[i]
             live1 == IF alloc /\ in.mallocOk THEN st.heapLive[i] + 1 ELSE st.heapLive[i]
             ret0 == IF alloc THEN -ENOMEM ELSE -ENOENT
         IN  IF fs1 # "null"
             THEN [index |-> [st.index EXCEPT ![i] = IF okret.m # 0 THEN IndexOnMountFail(i) ELSE i + 1],
                   fs |-> [st.fs EXCEPT ![i] = fs1],
                   heapLive |-> [st.heapLive EXCEPT ![i] = live1],
                   ret |-> okret.m, backend |-> <<mname>>]
             ELSE [index |-> st.index, fs |-> st.fs, heapLive |-> st.heapLive,
                   ret |-> ret0, backend |-> <<>>]
    ELSE IF st.fs[i] # "null"
         THEN LET freed == st.fs[i] = "heap" \/ in.usable
              IN  [index |-> [st.index EXCEPT ![i] = 0],
                   fs |-> [st.fs EXCEPT ![i] = IF freed THEN "null" ELSE st.fs[i]],
                   heapLive |-> [st.heapLive EXCEPT ![i] =
                                    IF st.fs[i] = "heap" THEN st.heapLive[i] - 1 ELSE st.heapLive[i]],
                   ret |-> okret.u, backend |-> <<uname>>]
         ELSE [index |-> st.index, fs |-> st.fs, heapLive |-> st.heapLive,
               ret |-> -ENOENT, backend |-> <<>>]

\* case FS_JESFS: the mount argument is not looked at
mount_jes(st, i, in) ==
    LET ret == jes_errno(in.res)
    IN  [index |-> IF ret = 0 THEN [st.index EXCEPT ![i] = i + 1] ELSE st.index,
         fs |-> st.fs, heapLive |-> st.heapLive,
         ret |-> ret, backend |-> <<"fs_start">>]

\* the switch of vfs_mount
mount_switch(st, i, mount, in) ==
    CASE table[i + 1].type = "FS_FATFS" ->
            mount_alloc(st, i, mount, in, [m |-> ff_errno(in.res), u |-> ff_errno(in.res)],
                        "f_mount", "f_mount(nullptr)")
      [] table[i + 1].type = "FS_LITTLEFS" ->
            mount_alloc(st, i, mount, in, [m |-> IF in.res # 0 THEN -ENXIO ELSE 0, u |-> in.res],
                        "lfs_mount", "lfs_unmount")
      [] table[i + 1].type = "FS_JESFS" -> mount_jes(st, i, in)
      [] OTHER -> [index |-> st.index, fs |-> st.fs, heapLive |-> st.heapLive,
                   ret |-> -ENOENT, backend |-> <<>>]

\* the events vfs_mount raises once the switch is done
RaisesEvent(ret, mount) == ret = 0 \/ mount

mount_events(r, i, mount) ==
    IF table[i + 1].eventcb /\ RaisesEvent(r.ret, mount)
    THEN IF r.ret = 0
         THEN <<Event(i, IF r.index[i] = 0 THEN "EVT_UNMOUNT" ELSE "EVT_MOUNT", r.index[i])>>
         ELSE <<Event(i, "EVT_MOUNT_FAIL", r.index[i])>>
    ELSE <<>>

\* vfs_mount(path, mount) on the state st with cached lengths nl
vfs_mount_on(st, nl, path, mount, in) ==
    LET i == vfs_find_entry_in(path, TRUE, st.index, nl)
    IN  IF i < 0
        THEN [index |-> st.index, fs |-> st.fs, heapLive |-> st.heapLive,
              ret |-> i, backend |-> <<>>, events |-> <<>>, entry |-> i]
        ELSE LET r == mount_switch(st, i, mount, in)
             IN  [index |-> r.index, fs |-> r.fs, heapLive |-> r.heapLive,
                  ret |-> r.ret, backend |-> r.backend,
                  events |-> mount_events(r, i, mount), entry |-> i]

TableState == [index |-> index, fs |-> fs, heapLive |-> heapLive]

MountPaths ==
    {table[k].drive : k \in 1..N} \cup ({<<"/", "x">>, <<"a", ":", "/", "x">>, <<"C", ":", "/", "x">>} \cap Paths)

VfsMount ==
    /\ inited
    /\ \E path \in MountPaths, mount \in BOOLEAN :
         LET i0 == vfs_find_entry(path, TRUE)
             t == IF i0 >= 0 THEN table[i0 + 1].type ELSE "FS_NONE"
         IN  \E in \in MountInputs(t) :
               LET r == vfs_mount_on(TableState, namelen, path, mount, in)
               IN  /\ \A i \in Pos : r.heapLive[i] <= MaxLive
                   /\ index' = r.index
                   /\ fs' = r.fs
                   /\ heapLive' = r.heapLive
                   /\ lastCall' = Call("mount", path, mount, r.entry, r.ret, r.backend, r.events)
    /\ UNCHANGED <<pure, table, namelen, inited, file, backendOpen, dir, dirsOpen>>

(***************************************************************************)
(* vfs_init: caches the prefix lengths and mounts every entry in order; an *)
(* entry that does not mount is unmounted again.                           *)
(***************************************************************************)
\* what the environment decides during the vfs_mount calls of vfs_init for
\* an entry of type t: no static state reads as a heap block
InitMountInputs(t) ==
    [mallocOk : IF t = "FS_JESFS" THEN {TRUE} ELSE BOOLEAN, res : MountResults(t), usable : {FALSE}]

InitUnmountInputs(t) ==
    [mallocOk : {TRUE}, res : MountResults(t), usable : {FALSE}]

TableStateOf(r) == [index |-> r.index, fs |-> r.fs, heapLive |-> r.heapLive]

\* The outcomes of the loop of vfs_init from entry i on: init_loop caches the
\* length and mounts the entry, init_mounted goes on after vfs_mount(drive,
\* true) gave r1, init_unmounted after vfs_mount(drive, false) gave r2.
RECURSIVE init_loop(_, _, _, _)
RECURSIVE init_mounted(_, _, _, _)
RECURSIVE init_unmounted(_, _, _, _)

init_unmounted(i, nl, r2, evs) == init_loop(i + 1, TableStateOf(r2), nl, evs \o r2.events)

init_mounted(i, nl, r1, evs) ==
    IF r1.ret = 0
    THEN init_loop(i + 1, TableStateOf(r1), nl, evs \o r1.events)
    ELSE UNION {init_unmounted(i, nl, vfs_mount_on(TableStateOf(r1), nl, table[i + 1].drive, FALSE, u),
                               evs \o r1.events) :
                  u \in InitUnmountInputs(table[i + 1].type)}

init_cached(i, st, nl, evs) ==
    UNION {init_mounted(i, nl, vfs_mount_on(st, nl, table[i + 1].drive, TRUE, m), evs) :
             m \in InitMountInputs(table[i + 1].type)}

init_loop(i, st, nl, evs) ==
    IF i >= N
    THEN {[index |-> st.index, fs |-> st.fs, heapLive |-> st.heapLive, namelen |-> nl, events |-> evs]}
    ELSE init_cached(i, st, [nl EXCEPT ![i] = strlen(table[i + 1].drive)], evs)

VfsInit ==
    /\ ~inited
    /\ \E r \in init_loop(0, TableState, namelen, <<>>) :
         /\ index' = r.index
         /\ fs' = r.fs
         /\ heapLive' = r.heapLive
         /\ namelen' = r.namelen
         /\ lastCall' = Call("init", NullPath, TRUE, -1, 0, <<>>, r.events)
    /\ inited' = TRUE
    /\ UNCHANGED <<pure, table, file, backendOpen, dir, dirsOpen>>

(***************************************************************************)
(* Path helpers of the backends.                                           *)
(***************************************************************************)
\* the characters a pointer past the terminator of a path can read
Garbage == {<<>>, <<"x">>}

\* &path[k] for the 0-based offset k; past the terminator the memory read is
\* not the path's, g stands for what is found there
Suffix(path, k, g) ==
    IF k <= Len(path) THEN SubSeq(path, k + 1, Len(path)) ELSE g

\* the while loop of _lfs_fix_path: every '\' becomes '/'
Slashed(path) == [k \in 1..Len(path) |-> IF path[k] = "\\" THEN "/" ELSE path[k]]

lfs_fix_path(i, path0, g) ==
    LET path == Slashed(path0)
    IN  IF strncmp0(path, table[i + 1].drive, namelen[i]) THEN Suffix(path, namelen[i] + 1, g)
        ELSE IF At(path, 1) = "/" THEN Suffix(path, namelen[i] + 1, g)
        ELSE path

jes_fix_path(i, path, g) ==
    IF strncmp0(path, table[i + 1].drive, namelen[i]) THEN Suffix(path, namelen[i] + 1, g)
    ELSE IF At(path, 1) = "\\" \/ At(path, 1) = "/" THEN Suffix(path, namelen[i] + 1, g)
    ELSE path

\* results of the backend primitives the path operations call
OpResults(t) ==
    CASE t = "FS_FATFS" -> {0, 4}        \* FR_OK, FR_NO_FILE
      [] t = "FS_LITTLEFS" -> {0, -2}    \* LFS_ERR_OK, LFS_ERR_NOENT
      [] t = "FS_JESFS" -> {0, -124}     \* ok, file not found
      [] OTHER -> {0}

TypeOf(i) == IF i >= 0 THEN table[i + 1].type ELSE "FS_NONE"

Res(ret, backend) == [ret |-> ret, backend |-> backend]

(***************************************************************************)
(* Path operations: each resolves its path with force = false.  r1 and r2  *)
(* are the results of the backend primitives the operation calls.          *)
(***************************************************************************)
mkdir_body(i, r1) ==
    CASE TypeOf(i) = "FS_FATFS" -> Res(ff_errno(r1), <<"f_mkdir">>)
      [] TypeOf(i) = "FS_LITTLEFS" ->
            Res(r1, IF r1 = 0 THEN <<"lfs_mkdir", "lfs_setattr", "lfs_setattr">> ELSE <<"lfs_mkdir">>)
      [] OTHER -> Res(-ENOENT, <<>>)

remove_body(i, r1, r2) ==
    CASE TypeOf(i) = "FS_FATFS" -> Res(ff_errno(r1), <<"f_unlink">>)
      [] TypeOf(i) = "FS_LITTLEFS" -> Res(r1, <<"lfs_remove">>)
      [] TypeOf(i) = "FS_JESFS" ->
            IF r1 = 0 THEN Res(jes_errno(r2), <<"fs_open", "fs_delete">>)
            ELSE Res(-ENOENT, <<"fs_open">>)
      [] OTHER -> Res(-ENOENT, <<>>)

rename_body(i, r1, r2) ==
    CASE TypeOf(i) = "FS_FATFS" -> Res(ff_errno(r1), <<"f_rename">>)
      [] TypeOf(i) = "FS_LITTLEFS" -> Res(r1, <<"lfs_rename">>)
      [] TypeOf(i) = "FS_JESFS" ->
            IF r1 = 0
            THEN IF r2 = 0 THEN Res(jes_errno(r2), <<"fs_open", "fs_open", "fs_rename">>)
                 ELSE Res(-ENOENT, <<"fs_open", "fs_open">>)
            ELSE Res(-ENOENT, <<"fs_open">>)
      [] OTHER -> Res(-ENOENT, <<>>)

getlabel_body(i, r1) ==
    CASE TypeOf(i) = "FS_FATFS" -> Res(ff_errno(r1), <<"f_getlabel">>)
      [] TypeOf(i) = "FS_LITTLEFS" -> Res(r1, <<"lfs_getattr">>)
      [] TypeOf(i) = "FS_JESFS" -> Res(0, <<>>)
      [] OTHER -> Res(-ENOENT, <<>>)

\* vfs_fs_size and vfs_fs_free: a byte count, 0 when the volume cannot be read
VolumeBytes == 4096

fs_size_body(i, r1) ==
    CASE TypeOf(i) = "FS_FATFS" -> Res(IF r1 = 0 THEN VolumeBytes ELSE 0, <<"f_getfree">>)
      [] TypeOf(i) = "FS_LITTLEFS" -> Res(VolumeBytes, <<>>)
      [] TypeOf(i) = "FS_JESFS" -> Res(VolumeBytes, <<>>)
      [] OTHER -> Res(0, <<>>)

\* vfs_touch with an info whose attributes (attr) and dates (dated) are set or not
touch_body(i, attr, dated, r1, r2) ==
    CASE TypeOf(i) = "FS_FATFS" ->
            Res(IF (attr /\ r1 # 0) \/ (dated /\ r2 # 0) THEN -1 ELSE 0,
                (IF attr THEN <<"f_chmod">> ELSE <<>>) \o (IF dated THEN <<"f_utime">> ELSE <<>>))
      [] TypeOf(i) = "FS_LITTLEFS" ->
            IF r1 >= 0
            THEN Res(IF r2 < 0 THEN -1 ELSE 0, <<"lfs_stat", "lfs_setattr", "lfs_setattr">>)
            ELSE Res(0, <<"lfs_stat">>)
      [] OTHER -> Res(0, <<>>)

\* the mount-root test of vfs_stat
StatRootFat(i, path) ==
    \/ At(path, namelen[i] + 1) = NUL
    \/ At(path, namelen[i] + 1) = "/" /\ At(path, namelen[i] + 2) = NUL
    \/ At(path, namelen[i] + 1) = "\\" /\ At(path, namelen[i] + 2) = NUL

StatRootFixed(p) == At(p, 1) = NUL \/ (At(p, 1) = "/" /\ At(p, 2) = NUL)

\* the members of VfsInfo_t besides device and attrib
VolumeFields == {"blocksize", "blocks", "size"}

\* the attribute flags of vfs.h: the position of the bit of each in the
\* uint8_t attrib (0x01 is position 0, 0x80 position 7)
AttrBit ==
    [ATR_IREAD |-> 0, ATR_IWRITE |-> 1, ATR_IEXEC |-> 2, ATR_HID |-> 3, ATR_SYS |-> 4,
     ATR_REG |-> 6, ATR_DIR |-> 7, ATR_REMOVABLE_DISK |-> 4, ATR_FLAT_FILESYSTEM |-> 5]

\* info->attrib after the flags were or-ed into it, as the set of its bits
AttribByte(flags) == {AttrBit[f] : f \in flags}

RootAttrib(i) ==
    {"ATR_DIR", "ATR_IREAD", "ATR_IWRITE"}
        \cup (IF table[i + 1].fixed THEN {} ELSE {"ATR_REMOVABLE_DISK"})

\* the info of an item of drive i; which of ATR_DIR and ATR_REG it has is the
\* backend's answer
ItemInfo(i) ==
    Info(index[i], {"ATR_REG", "ATR_IREAD", "ATR_IWRITE"},
         {"name", "size", "blocksize", "blocks", "created", "modified"})

StatRes(ret, backend, info) == [ret |-> ret, backend |-> backend, info |-> info]

stat_body(i, path, g, r1) ==
    CASE TypeOf(i) = "FS_FATFS" ->
            IF StatRootFat(i, path)
            THEN StatRes(ff_errno(r1), <<"f_getfree">>,
                         Info(index[i], RootAttrib(i),
                              {"name"} \cup (IF ff_errno(r1) = 0 THEN VolumeFields ELSE {})))
            ELSE StatRes(ff_errno(r1), <<"f_stat">>,
                         IF ff_errno(r1) = 0 THEN ItemInfo(i) ELSE ZeroInfo)
      [] TypeOf(i) = "FS_LITTLEFS" ->
            IF StatRootFixed(lfs_fix_path(i, path, g))
            THEN StatRes(IF r1 >= 0 THEN 0 ELSE -ENOENT, <<"lfs_fs_size">>,
                         Info(index[i], RootAttrib(i),
                              {"name"} \cup (IF r1 >= 0 THEN VolumeFields ELSE {})))
            ELSE IF r1 >= 0
                 THEN StatRes(0, <<"lfs_stat", "lfs_getattr", "lfs_getattr">>,
                              ItemInfo(i))
                 ELSE StatRes(r1, <<"lfs_stat">>, ZeroInfo)
      [] TypeOf(i) = "FS_JESFS" ->
            IF StatRootFixed(jes_fix_path(i, path, g))
            THEN StatRes(0, <<>>,
                         Info(0, {"ATR_DIR", "ATR_IREAD", "ATR_IWRITE", "ATR_FLAT_FILESYSTEM"},
                              {"name", "created", "modified"} \cup VolumeFields))
            ELSE IF jes_errno(r1) = 0
                 THEN StatRes(0, <<"fs_open", "fs_close">>, ItemInfo(i))
                 ELSE StatRes(jes_errno(r1), <<"fs_open">>, ZeroInfo)
      [] OTHER -> StatRes(-ENOENT, <<>>, ZeroInfo)

\* the code returned when the path does not resolve
TouchNotFound(i) == -1
NotFoundRet(op, i) == IF op = "touch" THEN TouchNotFound(i) ELSE i

PathOpNames == {"mkdir", "remove", "rename", "stat", "touch", "getlabel", "fs_size", "fs_free"}

path_body(op, path, i, attr, dated, g, r1, r2) ==
    IF i < 0 THEN Res(NotFoundRet(op, i), <<>>)
    ELSE CASE op = "mkdir" -> mkdir_body(i, r1)
           [] op = "remove" -> remove_body(i, r1, r2)
           [] op = "rename" -> rename_body(i, r1, r2)
           [] op = "stat" -> stat_body(i, path, g, r1)
           [] op = "touch" -> touch_body(i, attr, dated, r1, r2)
           [] op = "getlabel" -> getlabel_body(i, r1)
           [] OTHER -> fs_size_body(i, r1)

\* out: the VfsInfo_t of a vfs_stat call
PathDone(op, path, i, r) ==
    lastCall' = [Call(op, path, FALSE, i, r.ret, r.backend, <<>>)
                    EXCEPT !.out = IF op = "stat" /\ i >= 0 THEN r.info ELSE ZeroInfo]

PathOp(op, path, attr, dated, g, r1, r2) ==
    PathDone(op, path, vfs_find_entry(path, FALSE),
             path_body(op, path, vfs_find_entry(path, FALSE), attr, dated, g, r1, r2))

\* the inputs an operation reads; the others are fixed
Uses2(op, t) == (t = "FS_JESFS" /\ op \in {"remove", "rename"}) \/ op = "touch"
UsesGarbage(op, t) == op = "stat" /\ t \in {"FS_LITTLEFS", "FS_JESFS"}

VfsPathOp ==
    /\ inited
    /\ \E op \in PathOpNames, path \in PathArgs :
         LET t == TypeOf(vfs_find_entry(path, FALSE))
         IN  \E r1 \in OpResults(t),
                r2 \in IF Uses2(op, t) THEN OpResults(t) ELSE {0},
                g \in IF UsesGarbage(op, t) THEN Garbage ELSE {<<>>},
                attr \in IF op = "touch" /\ t = "FS_FATFS" THEN BOOLEAN ELSE {FALSE},
                dated \in IF op = "touch" /\ t = "FS_FATFS" THEN BOOLEAN ELSE {FALSE} :
               PathOp(op, path, attr, dated, g, r1, r2)
    /\ UNCHANGED <<pure, table, index, namelen, fs, heapLive, inited, file, backendOpen, dir, dirsOpen>>

(***************************************************************************)
(* Handles.  A handle the caller has not initialised holds an              *)
(* indeterminate filesys pointer.                                          *)
(***************************************************************************)
Null == -1
Uninit == -2
RootSys == -3      \* &vRootSystem[0]

\* held: the handle's backend object is open; pos and size are the backend's
\* position and length of an open file (0 in a handle without an open object)
File(f, h, p, z) == [filesys |-> f, held |-> h, pos |-> p, size |-> z]
NoFile == File(Uninit, FALSE, 0, 0)
NoDir == [filesys |-> Uninit, root |-> 0, pos |-> 0, list |-> <<>>, pattern |-> <<>>, held |-> FALSE]

(***************************************************************************)
(* File handles.                                                           *)
(***************************************************************************)
MaxSize == 1
MaxPos == 2

OpenPaths == (Paths \ {<<"A", ":", "\\">>, <<"a", ":", "/", "x">>}) \cup {<<"a", ":">>, NullPath}

OpenFlags == {{"VFS_RDONLY"}, {"VFS_WRONLY", "VFS_CREAT", "VFS_TRUNC"}, {"VFS_RDONLY", "VFS_WRONLY", "VFS_APPEND"}}

\* "We cannot open the root entries"
RootRejected(i, path) ==
    /\ strncmp0(path, table[i + 1].drive, namelen[i])
    /\ At(path, namelen[i] + 1) # "\\"
    /\ At(path, namelen[i] + 1) # "/"

\* file->jes.file_pos = file->jes.file_len: the write to the backend's
\* descriptor that follows fs_open, whatever fs_open returned
JesAppend(flags) == IF "VFS_APPEND" \in flags THEN <<"file_pos = file_len">> ELSE <<>>

\* the switch of vfs_file_open: r is the result of the backend open, z the
\* length of the file it opened
open_switch(i, flags, r, z) ==
    LET len == IF "VFS_TRUNC" \in flags /\ "VFS_WRONLY" \in flags THEN 0 ELSE z
    IN  CASE TypeOf(i) = "FS_FATFS" ->
                IF ff_errno(r) = 0
                THEN [ret |-> 0, pos |-> IF "VFS_APPEND" \in flags THEN len ELSE 0, size |-> len,
                      backend |-> IF "VFS_APPEND" \in flags THEN <<"f_open", "f_lseek">> ELSE <<"f_open">>]
                ELSE [ret |-> ff_errno(r), pos |-> 0, size |-> 0, backend |-> <<"f_open">>]
          [] TypeOf(i) = "FS_LITTLEFS" ->
                IF r = 0
                THEN [ret |-> 0, pos |-> 0, size |-> len, backend |-> <<"lfs_file_opencfg", "lfs_getattr">>]
                ELSE [ret |-> r, pos |-> 0, size |-> 0, backend |-> <<"lfs_file_opencfg">>]
          [] TypeOf(i) = "FS_JESFS" ->
                IF jes_errno(r) = 0
                THEN [ret |-> 0, pos |-> IF "VFS_APPEND" \in flags THEN len ELSE 0, size |-> len,
                      backend |-> <<"fs_open">> \o JesAppend(flags)]
                ELSE [ret |-> jes_errno(r), pos |-> 0, size |-> 0,
                      backend |-> <<"fs_open">> \o JesAppend(flags)]
          [] OTHER -> [ret |-> -ENOENT, pos |-> 0, size |-> 0, backend |-> <<>>]

\* file->filesys after the switch: cleared when ret < 0
ClearedOnFailure(ret, i) == IF ret < 0 THEN Null ELSE i

vfs_file_open(path, flags, r, z) ==
    LET i == vfs_find_entry(path, FALSE)
    IN  IF i < 0
        THEN [file |-> file, ret |-> -ENOENT, backend |-> <<>>, entry |-> i]
        ELSE IF RootRejected(i, path)
        THEN [file |-> File(i, FALSE, 0, 0), ret |-> -EBADF, backend |-> <<>>, entry |-> i]
        ELSE LET o == open_switch(i, flags, r, z)
             IN  [file |-> File(ClearedOnFailure(o.ret, i), o.ret = 0, o.pos, o.size),
                  ret |-> o.ret, backend |-> o.backend, entry |-> i]

\* A caller opens a handle that holds no open file (open, use, close, in
\* that order).
VfsFileOpen ==
    /\ inited
    /\ ~file.held
    /\ \E path \in OpenPaths, flags \in OpenFlags :
         LET t == TypeOf(vfs_find_entry(path, FALSE))
         IN  \E r \in OpResults(t), z \in 0..MaxSize :
               LET o == vfs_file_open(path, flags, r, z)
               IN  /\ (~o.file.held => z = 0)
                   /\ backendOpen + (IF o.file.held THEN 1 ELSE 0) <= MaxOpen
                   /\ file' = o.file
                   /\ backendOpen' = backendOpen + (IF o.file.held THEN 1 ELSE 0)
                   /\ lastCall' = Call("open", path, "VFS_APPEND" \in flags, o.entry, o.ret, o.backend, <<>>)
    /\ UNCHANGED <<pure, table, index, namelen, fs, heapLive, inited, dir, dirsOpen>>

\* file->filesys->type & ~FS_FIXED.  Through a null or indeterminate filesys
\* pointer the read is of memory that is not a FileSystem_t: any value.
AnyType == {"FS_NONE", "FS_ROOT", "FS_FATFS", "FS_LITTLEFS", "FS_JESFS"}

HandleTypes(f) ==
    IF f >= 0 THEN {table[f + 1].type}
    ELSE IF f = RootSys THEN {"FS_ROOT"}
    ELSE AnyType

\* the backends vfs_file_close has a case for
CloseReleasesNoJes(t) == t \in {"FS_FATFS", "FS_LITTLEFS"}
CloseReleases(t) == t \in {"FS_FATFS", "FS_LITTLEFS", "FS_JESFS"}

close_switch(t, r) ==
    CASE t = "FS_FATFS" /\ CloseReleases(t) -> Res(ff_errno(r), <<"f_close">>)
      [] t = "FS_LITTLEFS" /\ CloseReleases(t) -> Res(r, <<"lfs_file_close">>)
      [] t = "FS_JESFS" /\ CloseReleases(t) -> Res(jes_errno(r), <<"fs_close">>)
      [] OTHER -> Res(-EBADF, <<>>)

\* results of a backend primitive on a file object: on an object that is not
\* open the backend reports what it finds
FileResults(t, held) ==
    CASE t = "FS_FATFS" -> IF held THEN {0, 1} ELSE {0, 9}       \* FR_OK, FR_DISK_ERR, FR_INVALID_OBJECT
      [] t = "FS_LITTLEFS" -> IF held THEN {0, -5} ELSE {0, -9}  \* ok, LFS_ERR_IO, LFS_ERR_BADF
      [] t = "FS_JESFS" -> IF held THEN {0, -137} ELSE {0, -117} \* ok, write failed, not open
      [] OTHER -> {0}

VfsFileClose ==
    /\ inited
    /\ \E t \in HandleTypes(file.filesys) :
         \E r \in FileResults(t, file.held) :
           LET c == close_switch(t, r)
               released == file.held /\ c.backend # <<>>
           IN  /\ file' = File(Null, file.held /\ ~released, 0, 0)
               /\ backendOpen' = IF released THEN backendOpen - 1 ELSE backendOpen
               /\ lastCall' = Call("close", NullPath, file.held, file.filesys, c.ret, c.backend, <<>>)
    /\ UNCHANGED <<pure, table, index, namelen, fs, heapLive, inited, dir, dirsOpen>>

\* A result declared size_t is recorded as the int of the same 32-bit
\* pattern: the negative code the callee stored.
Min(a, b) == IF a < b THEN a ELSE b
Max(a, b) == IF a > b THEN a ELSE b

\* what a handle operation yields: result, backend calls, position and size
FileRes(ret, backend, p, z) == [ret |-> ret, backend |-> backend, pos |-> p, size |-> z]

MaxCount == 2

read_switch(t, size, r) ==
    LET n == IF file.held THEN Min(size, Max(file.size - file.pos, 0)) ELSE 0
    IN  CASE t = "FS_FATFS" ->
                IF ff_errno(r) = 0
                THEN FileRes(n, <<"f_read">>, file.pos + n, file.size)
                ELSE FileRes(ff_errno(r), <<"f_read">>, file.pos, file.size)
          [] t = "FS_LITTLEFS" ->
                IF r = 0
                THEN FileRes(n, <<"lfs_file_read">>, file.pos + n, file.size)
                ELSE FileRes(r, <<"lfs_file_read">>, file.pos, file.size)
          [] t = "FS_JESFS" ->
                IF r = 0
                THEN FileRes(jes_errno(n), <<"fs_read">>, file.pos + n, file.size)
                ELSE FileRes(jes_errno(r), <<"fs_read">>, file.pos, file.size)
          [] OTHER -> FileRes(0, <<>>, file.pos, file.size)

write_switch(t, size, r) ==
    LET n == IF file.held THEN size ELSE 0
        end == Max(file.size, file.pos + n)
    IN  CASE t = "FS_FATFS" ->
                IF ff_errno(r) = 0
                THEN FileRes(n, <<"f_write">>, file.pos + n, end)
                ELSE FileRes(ff_errno(r), <<"f_write">>, file.pos, file.size)
          [] t = "FS_LITTLEFS" ->
                IF r = 0
                THEN FileRes(n, <<"lfs_file_write">>, file.pos + n, end)
                ELSE FileRes(r, <<"lfs_file_write">>, file.pos, file.size)
          [] t = "FS_JESFS" ->
                IF r = 0
                THEN FileRes(jes_errno(0), <<"fs_write">>, file.pos + n, end)
                ELSE FileRes(jes_errno(r), <<"fs_write">>, file.pos, file.size)
          [] OTHER -> FileRes(0, <<>>, file.pos, file.size)

Whences == {"SEEK_SET", "SEEK_CUR", "SEEK_END", "other"}

\* start of the FAT and JES cases; -1 stands for the else branch
SeekStart(whence) ==
    CASE whence = "SEEK_SET" -> 0
      [] whence = "SEEK_CUR" -> file.pos
      [] whence = "SEEK_END" -> file.size + 1
      [] OTHER -> -1

\* lfs_file_seek: the new position, or LFS_ERR_INVAL
lfs_file_seek(offset, whence) ==
    CASE whence = "SEEK_SET" -> offset
      [] whence = "SEEK_CUR" -> file.pos + offset
      [] whence = "SEEK_END" -> file.size + offset
      [] OTHER -> -22

\* r is the result of the backend seek; with clamp the FAT backend stops at
\* the end of a file it may not extend
seek_switch(t, offset, whence, r, clamp) ==
    LET start == SeekStart(whence)
        target == start + offset
    IN  CASE t = "FS_FATFS" ->
                IF start < 0 THEN FileRes(-EINVAL, <<>>, file.pos, file.size)
                ELSE IF ff_errno(r) # 0 THEN FileRes(ff_errno(r), <<"f_lseek">>, file.pos, file.size)
                ELSE LET p == IF clamp THEN Min(target, file.size) ELSE target
                     IN  FileRes(IF p # target THEN -ENOSPC ELSE 0, <<"f_lseek">>, p, Max(file.size, p))
          [] t = "FS_LITTLEFS" ->
                IF r # 0 \/ lfs_file_seek(offset, whence) < 0
                THEN FileRes(IF r # 0 THEN r ELSE lfs_file_seek(offset, whence),
                             <<"lfs_file_seek">>, file.pos, file.size)
                ELSE FileRes(lfs_file_seek(offset, whence), <<"lfs_file_seek">>,
                             lfs_file_seek(offset, whence), file.size)
          [] t = "FS_JESFS" ->
                IF start < 0 THEN FileRes(-EINVAL, <<>>, file.pos, file.size)
                ELSE FileRes(0, <<>>, target, file.size)
          [] OTHER -> FileRes(-EBADF, <<>>, file.pos, file.size)

tell_switch(t) ==
    CASE t = "FS_FATFS" -> FileRes(file.pos, <<"f_tell">>, file.pos, file.size)
      [] t = "FS_LITTLEFS" -> FileRes(file.pos, <<"lfs_file_tell">>, file.pos, file.size)
      [] t = "FS_JESFS" -> FileRes(file.pos, <<>>, file.pos, file.size)
      [] OTHER -> FileRes(0, <<>>, file.pos, file.size)

size_switch(t) ==
    CASE t = "FS_FATFS" -> FileRes(file.size, <<"f_size">>, file.pos, file.size)
      [] t = "FS_LITTLEFS" -> FileRes(file.size, <<"lfs_file_size">>, file.pos, file.size)
      [] t = "FS_JESFS" -> FileRes(file.size, <<>>, file.pos, file.size)
      [] OTHER -> FileRes(0, <<>>, file.pos, file.size)

\* A handle operation other than close: the position and size of a handle
\* that holds no open file are not tracked.
\* args: the arguments of the call besides the handle
HandleOpOn(op, args, o) ==
    /\ o.pos <= MaxPos
    /\ file' = IF file.held THEN File(file.filesys, TRUE, o.pos, o.size) ELSE file
    /\ lastCall' = Call(op, args, file.held, file.filesys, o.ret, o.backend, <<>>)
    /\ UNCHANGED <<pure, table, index, namelen, fs, heapLive, inited, backendOpen, dir, dirsOpen>>

HandleOp(op, o) == HandleOpOn(op, NullPath, o)

VfsFileRead ==
    /\ inited
    /\ \E t \in HandleTypes(file.filesys), size \in 1..MaxCount :
         \E r \in FileResults(t, file.held) : HandleOp("read", read_switch(t, size, r))

VfsFileWrite ==
    /\ inited
    /\ \E t \in HandleTypes(file.filesys), size \in 1..MaxCount :
         \E r \in FileResults(t, file.held) : HandleOp("write", write_switch(t, size, r))

VfsFileSeek ==
    /\ inited
    /\ \E t \in HandleTypes(file.filesys), offset \in 0..1, whence \in Whences, clamp \in BOOLEAN :
         \E r \in FileResults(t, file.held) :
           /\ (clamp => t = "FS_FATFS" /\ file.held)
           \* recorded arguments: whence, then one mark per unit of offset
           /\ HandleOpOn("seek", <<whence>> \o [k \in 1..offset |-> "+1"],
                         seek_switch(t, offset, whence, r, clamp))

VfsFileTell ==
    /\ inited
    /\ \E t \in HandleTypes(file.filesys) : HandleOp("tell", tell_switch(t))

VfsFileSize ==
    /\ inited
    /\ \E t \in HandleTypes(file.filesys) : HandleOp("size", size_switch(t))

(***************************************************************************)
(* Directory handles and pattern search.                                   *)
(***************************************************************************)
Dir(f, rt, p, l, pat, h) ==
    [filesys |-> f, root |-> rt, pos |-> p, list |-> l, pattern |-> pat, held |-> h]

\* memset(dir, 0, sizeof(VfsDir_t))
ZeroDir == Dir(Null, 0, 0, <<>>, <<>>, FALSE)

\* names a backend directory holds; Inactive is a slot of the flat backend
\* whose fs_info result is non-zero without FS_STAT_ACTIVE
Names == {<<"x">>, <<"X", "y">>}
Inactive == <<"inactive">>

\* listings of at most n entries; a directory holds a name once
ListsOver(S, n) ==
    {l \in UNION {[1..k -> S] : k \in 0..n} :
        \A a, b \in DOMAIN l : (a # b /\ l[a] = l[b]) => l[a] = Inactive}

Listings(t) ==
    CASE t = "FS_FATFS" -> ListsOver(Names, MaxListLen)
      [] t = "FS_LITTLEFS" -> ListsOver(Names, MaxListLen)
      [] t = "FS_JESFS" -> ListsOver(Names \cup {Inactive}, MaxListLen)
      [] OTHER -> {<<>>}

Patterns == {<<"*">>, <<"?", "y">>}

DirPaths == {<<>>, <<"A", ":">>, <<"A", ":", "/">>, <<"B", ":", "/", "x">>, NullPath}

\* the dispatch of vfs_dir_open on a resolved entry
dir_open_switch(i, path, r, list, g) ==
    CASE TypeOf(i) = "FS_FATFS" ->
            [dir |-> Dir(i, 0, 0, IF ff_errno(r) = 0 THEN list ELSE <<>>, <<>>, ff_errno(r) = 0),
             ret |-> ff_errno(r), backend |-> <<"f_opendir">>]
      [] TypeOf(i) = "FS_LITTLEFS" ->
            [dir |-> Dir(i, 0, 0, IF r = 0 THEN list ELSE <<>>, <<>>, r = 0),
             ret |-> r, backend |-> <<"lfs_dir_open">>]
      [] TypeOf(i) = "FS_JESFS" ->
            IF strlen(jes_fix_path(i, path, g)) = 0
            THEN [dir |-> Dir(i, 0, 0, list, <<>>, TRUE), ret |-> 0, backend |-> <<>>]
            ELSE [dir |-> Dir(i, 0, 0, <<>>, <<>>, FALSE), ret |-> -ENOENT, backend |-> <<>>]
      [] OTHER -> [dir |-> Dir(i, 0, 0, <<>>, <<>>, FALSE), ret |-> -ENOENT, backend |-> <<>>]

\* "Deal with mountpoints..."
IsRootPath(path) == path = NullPath \/ strcspn(path) <= 1

vfs_dir_open(path, r, list, g) ==
    LET i == vfs_find_entry(path, FALSE)
    IN  IF i >= 0
        THEN [entry |-> i] @@ dir_open_switch(i, path, r, list, g)
        ELSE IF IsRootPath(path)
        THEN [dir |-> Dir(RootSys, 0, 0, <<>>, <<>>, TRUE), ret |-> 0, backend |-> <<>>, entry |-> i]
        ELSE [dir |-> ZeroDir, ret |-> -ENOENT, backend |-> <<>>, entry |-> i]

\* dir->filesys->type of a handle vfs_dir_open filled in
DirType(f) == IF f = RootSys THEN "FS_ROOT" ELSE TypeOf(f)

\* backend directory objects a handle keeps open
DirObjects(d) ==
    IF d.held /\ TypeOf(d.filesys) \in {"FS_FATFS", "FS_LITTLEFS"} THEN 1 ELSE 0

dir_close_switch(t, r) ==
    CASE t = "FS_FATFS" -> Res(ff_errno(r), <<"f_closedir">>)
      [] t = "FS_LITTLEFS" -> Res(r, <<"lfs_dir_close">>)
      [] t = "FS_JESFS" -> Res(0, <<>>)
      [] OTHER -> Res(-EBADF, <<>>)

\* The other fields of a closed handle are dead: vfs_dir_open zeroes them
\* before it reads any.
vfs_dir_close(d, t, r) ==
    [dir |-> ZeroDir, ret |-> dir_close_switch(t, r).ret, backend |-> dir_close_switch(t, r).backend]

ReadRes(d, ret, name, backend) == [dir |-> d, ret |-> ret, name |-> name, backend |-> backend]

\* backend calls of the FS_ROOT case for the entry listed
RootInfoCalls(t) ==
    CASE t = "FS_FATFS" -> <<"f_getfree">>
      [] t = "FS_LITTLEFS" -> <<"lfs_fs_size", "lfs_getattr">>
      [] OTHER -> <<>>

\* the do-while of the FS_JESFS case: fs_info on slot after slot
RECURSIVE jes_scan(_, _)
jes_scan(d, calls) ==
    LET next == [d EXCEPT !.pos = d.pos + 1]
    IN  IF d.pos >= Len(d.list) THEN ReadRes(next, -1, <<>>, Append(calls, "fs_info"))
        ELSE IF d.list[d.pos + 1] = Inactive THEN jes_scan(next, Append(calls, "fs_info"))
        ELSE ReadRes(next, 0, d.list[d.pos + 1], Append(calls, "fs_info"))

\* errAt: the position at which the FAT or littlefs backend fails the read
vfs_dir_read(d, t, errAt) ==
    LET atEnd == d.pos >= Len(d.list)
        next == [d EXCEPT !.pos = d.pos + 1]
    IN  CASE t = "FS_ROOT" ->
                IF d.root < N
                THEN ReadRes([d EXCEPT !.root = d.root + 1], 0, table[d.root + 1].drive,
                             RootInfoCalls(table[d.root + 1].type))
                ELSE ReadRes(d, -1, <<>>, <<>>)
          [] t = "FS_FATFS" ->
                IF d.pos = errAt \/ atEnd THEN ReadRes(d, -1, <<>>, <<"f_readdir">>)
                ELSE ReadRes(next, 0, d.list[d.pos + 1], <<"f_readdir">>)
          [] t = "FS_LITTLEFS" ->
                IF d.pos = errAt \/ atEnd THEN ReadRes(d, -1, <<>>, <<"lfs_dir_read">>)
                ELSE ReadRes(next, 0, d.list[d.pos + 1], <<"lfs_dir_read", "lfs_getattr", "lfs_getattr">>)
          [] t = "FS_JESFS" -> jes_scan(d, <<>>)
          [] OTHER -> ReadRes(d, -1, <<>>, <<>>)

\* the do-while that analyses a run of wildcard characters starting at pp:
\* where it ends, the number of '?' and whether a '*' was seen
RECURSIVE wildcards(_, _, _, _)
wildcards(pat, pp, nm, nx) ==
    LET nm1 == IF At(pat, pp) = "?" THEN nm + 1 ELSE nm
        nx1 == IF At(pat, pp) = "?" THEN nx ELSE 1
    IN  IF At(pat, pp + 1) = "?" \/ At(pat, pp + 1) = "*"
        THEN wildcards(pat, pp + 1, nm1, nx1)
        ELSE [pp |-> pp + 1, nm |-> nm1, nx |-> nx1]

\* pattern_matching(pat + p0 - 1, nam + n0 - 1, skip, inf); branch is its
\* for (;;) loop from pattern position pp and name position np, retry its
\* outer do-while from name position n
RECURSIVE pattern_matching_at(_, _, _, _, _, _)
RECURSIVE branch(_, _, _, _)
RECURSIVE retry(_, _, _, _, _)

branch(pat, nam, pp, np) ==
    IF At(pat, pp) = "?" \/ At(pat, pp) = "*"
    THEN LET w == wildcards(pat, pp, 0, 0)
         IN  IF pattern_matching_at(pat, nam, w.pp, np, w.nm, w.nx)
             THEN [ok |-> TRUE, nc |-> NUL]
             ELSE [ok |-> FALSE, nc |-> At(nam, np)]
    ELSE LET pc == toupper(At(pat, pp))
             nc == toupper(At(nam, np))
         IN  IF pc # nc THEN [ok |-> FALSE, nc |-> nc]
             ELSE IF pc = NUL THEN [ok |-> TRUE, nc |-> nc]
             ELSE branch(pat, nam, pp + 1, np + 1)

retry(pat, nam, p0, n, inf) ==
    LET b == branch(pat, nam, p0, n)
    IN  IF b.ok THEN TRUE
        ELSE IF inf # 0 /\ b.nc # NUL THEN retry(pat, nam, p0, n + 1, inf)
        ELSE FALSE

pattern_matching_at(pat, nam, p0, n0, skip, inf) ==
    IF skip > 0 /\ n0 + skip - 1 > Len(nam) THEN FALSE
    ELSE IF At(pat, p0) = NUL /\ inf # 0 THEN TRUE
    ELSE retry(pat, nam, p0, n0 + skip, inf)

pattern_matching(pat, nam, skip, inf) == pattern_matching_at(pat, nam, 1, 1, skip, inf)

RECURSIVE findnext_loop(_, _, _, _)
findnext_loop(d, t, errAt, calls) ==
    LET rd == vfs_dir_read(d, t, errAt)
    IN  IF rd.ret = 0 /\ ~pattern_matching(d.pattern, rd.name, 0, 0)
        THEN findnext_loop(rd.dir, t, errAt, calls \o rd.backend)
        ELSE ReadRes(rd.dir, rd.ret, rd.name, calls \o rd.backend)

vfs_findnext(d, t, errAt) == findnext_loop(d, t, errAt, <<>>)

\* the test after which vfs_findfirst closes the directory
FindFailedOnError(ret) == ret < -1
FindFailed(ret) == ret # 0

FoundRes(d, ret, backend, entry, opened) ==
    [dir |-> d, ret |-> ret, backend |-> backend, entry |-> entry, opened |-> opened]

\* vfs_findfirst once vfs_findnext gave n on the directory that o opened; c
\* is the vfs_dir_close of a failed search, whose result is discarded
findfirst_found(o, n, c) ==
    IF FindFailed(n.ret)
    THEN FoundRes(c.dir, n.ret, (o.backend \o n.backend) \o c.backend, o.entry, TRUE)
    ELSE FoundRes(n.dir, n.ret, o.backend \o n.backend, o.entry, TRUE)

findfirst_search(o, n, rc) ==
    findfirst_found(o, n, vfs_dir_close(n.dir, DirType(o.dir.filesys), rc))

\* vfs_findfirst once vfs_dir_open gave o
findfirst_opened(o, pattern, errAt, rc) ==
    IF o.ret # 0
    THEN FoundRes(o.dir, o.ret, o.backend, o.entry, FALSE)
    ELSE findfirst_search(o, vfs_findnext([o.dir EXCEPT !.pattern = pattern],
                                          DirType(o.dir.filesys), errAt), rc)

\* rc is the result of the backend close
vfs_findfirst(path, pattern, r, list, g, errAt, rc) ==
    findfirst_opened(vfs_dir_open(path, r, list, g), pattern, errAt, rc)

\* positions at which a read of the handle's backend can be made to fail
ErrAts(t, from, list) ==
    IF t \in {"FS_FATFS", "FS_LITTLEFS"} THEN {-1} \cup from..(Len(list) - 1) ELSE {-1}

\* inputs of a directory open that the entry's backend looks at
DirOpenInput(t, r, l, g) == [t |-> t, r |-> r, list |-> l, g |-> g, errAt |-> -1]

DirOpenInputsOf(t, past) ==
    {DirOpenInput(t, 0, l, g) : l \in Listings(t), g \in IF past THEN Garbage ELSE {<<>>}}
    \cup {DirOpenInput(t, r, <<>>, <<>>) :
            r \in IF t \in {"FS_FATFS", "FS_LITTLEFS"} THEN OpResults(t) \ {0} ELSE {}}

\* the fixed path of the flat backend starts past the terminator of path
PastEnd(i, path) == TypeOf(i) = "FS_JESFS" /\ Len(path) <= namelen[i]

DirOpenInputs(path) ==
    DirOpenInputsOf(TypeOf(vfs_find_entry(path, FALSE)), PastEnd(vfs_find_entry(path, FALSE), path))

\* results of the backend close of a directory
DirCloseResults(t, held) ==
    IF t \in {"FS_FATFS", "FS_LITTLEFS"} THEN FileResults(t, held) ELSE {0}

DirUnchanged == UNCHANGED <<pure, table, index, namelen, fs, heapLive, inited, file, backendOpen>>

DirOpenStep(path, list, o) ==
    /\ (o.ret # 0 => list = <<>>)
    /\ dirsOpen + DirObjects(o.dir) <= MaxOpen
    /\ dir' = o.dir
    /\ dirsOpen' = dirsOpen + DirObjects(o.dir)
    /\ lastCall' = Call("dir_open", path, o.ret = 0, o.entry, o.ret, o.backend, <<>>)

\* A caller opens a handle that holds no open directory.
VfsDirOpen ==
    /\ inited
    /\ ~dir.held
    /\ \E path \in DirPaths :
         \E in \in DirOpenInputs(path) :
           DirOpenStep(path, in.list, vfs_dir_open(path, in.r, in.list, in.g))
    /\ DirUnchanged

DirCloseStep(c) ==
    /\ dir' = c.dir
    /\ dirsOpen' = dirsOpen - DirObjects(dir)
    /\ lastCall' = Call("dir_close", NullPath, dir.held, dir.filesys, c.ret, c.backend, <<>>)

VfsDirClose ==
    /\ inited
    /\ \E t \in HandleTypes(dir.filesys) :
         \E r \in DirCloseResults(t, dir.held) : DirCloseStep(vfs_dir_close(dir, t, r))
    /\ DirUnchanged

\* info->inode = item | (index << INODE_ITEM_BITS)
dir_inode(item, idx) == [c \in InodeConfigs |-> item \cup Shl(Bits(idx), INODE_ITEM_BITS(c))]

\* the VfsInfo_t a vfs_dir_read that returns 0 fills in; d is the handle
\* before the call and d1 after it.  The item of a FAT entry is fno.inode,
\* here the position of the entry, that of the flat filesystem the slot
\* dir->fno; the littlefs case does not assign info->inode.  The entries
\* are shown as writable regular files.
DirInfo(d, d1) ==
    CASE d.filesys = RootSys ->
            [Info(index[d.root],
                  {"ATR_DIR", "ATR_IREAD", "ATR_IWRITE", "ATR_IEXEC"}
                      \cup (IF table[d.root + 1].type = "FS_JESFS" THEN {"ATR_FLAT_FILESYSTEM"} ELSE {}),
                  {"name", "inode", "created", "modified"} \cup VolumeFields)
                EXCEPT !.inode = dir_inode({}, index[d.root])]
      [] d.filesys >= 0 /\ TypeOf(d.filesys) \in {"FS_FATFS", "FS_JESFS"} ->
            [Info(index[d.filesys], {"ATR_IREAD", "ATR_IEXEC", "ATR_REG", "ATR_IWRITE"},
                  {"name", "inode", "size", "blocksize", "blocks", "created", "modified"})
                EXCEPT !.inode = dir_inode(Bits(d1.pos - 1), index[d.filesys])]
      [] d.filesys >= 0 /\ TypeOf(d.filesys) = "FS_LITTLEFS" ->
            Info(index[d.filesys], {"ATR_IREAD", "ATR_IWRITE", "ATR_IEXEC", "ATR_REG"},
                 {"name", "size", "blocksize", "blocks", "created", "modified"})
      [] OTHER -> ZeroInfo

\* a read or a search continues on the handle as it is
DirStep(op, rd) ==
    /\ rd.dir.pos <= MaxListLen + 1
    /\ dir' = rd.dir
    /\ lastCall' = [Call(op, rd.name, dir.held, dir.filesys, rd.ret, rd.backend, <<>>)
                       EXCEPT !.out = IF rd.ret = 0 THEN DirInfo(dir, rd.dir) ELSE ZeroInfo]
    /\ UNCHANGED dirsOpen
    /\ DirUnchanged

VfsDirRead ==
    /\ inited
    /\ \E t \in HandleTypes(dir.filesys), errAt \in {-1, dir.pos} :
         DirStep("dir_read", vfs_dir_read(dir, t, errAt))

VfsFindNext ==
    /\ inited
    /\ \E t \in HandleTypes(dir.filesys) :
         \E errAt \in ErrAts(t, dir.pos, dir.list) :
           DirStep("findnext", vfs_findnext(dir, t, errAt))

FindFirstStep(path, list, f) ==
    /\ (~f.opened => list = <<>>)
    /\ dirsOpen + DirObjects(f.dir) <= MaxOpen
    /\ dir' = f.dir
    /\ dirsOpen' = dirsOpen + DirObjects(f.dir)
    /\ lastCall' = Call("findfirst", path, f.opened, f.entry, f.ret, f.backend, <<>>)

FindFirstInputs(in) == {[in EXCEPT !.errAt = e] : e \in ErrAts(in.t, 0, in.list)}

VfsFindFirst ==
    /\ inited
    /\ ~dir.held
    /\ \E path \in DirPaths, pattern \in Patterns :
         \E in \in UNION {FindFirstInputs(in0) : in0 \in DirOpenInputs(path)} :
           FindFirstStep(path, in.list, vfs_findfirst(path, pattern, in.r, in.list, in.g, in.errAt, 0))
    /\ DirUnchanged

\* a function, its arguments, whether it was applied, and its result
Pure(op, in, done, out) == [op |-> op, in |-> in, done |-> done, out |-> out]

Init ==
    /\ table \in Tables
    /\ index = [i \in Pos |-> 0]
    /\ namelen = [i \in Pos |-> 0]
    /\ fs = [i \in Pos |-> table[i + 1].fs0]
    /\ heapLive = [i \in Pos |-> 0]
    /\ inited = FALSE
    /\ file = NoFile
    /\ backendOpen = 0
    /\ dir = NoDir
    /\ dirsOpen = 0
    /\ lastCall = NoCall
    /\ pure = Pure("none", <<>>, FALSE, FALSE)

NextMount == VfsInit \/ VfsMount

SpecMount == Init /\ [][NextMount]_vars

NextFile ==
    \/ VfsInit
    \/ VfsFileOpen
    \/ VfsFileClose
    \/ VfsFileRead
    \/ VfsFileWrite
    \/ VfsFileSeek
    \/ VfsFileTell
    \/ VfsFileSize

SpecFile == Init /\ [][NextFile]_vars

NextDir ==
    \/ VfsInit
    \/ VfsDirOpen
    \/ VfsDirClose
    \/ VfsDirRead
    \/ VfsFindFirst
    \/ VfsFindNext

SpecDir == Init /\ [][NextDir]_vars

NextPath == VfsInit \/ VfsMount \/ VfsPathOp

SpecPath == Init /\ [][NextPath]_vars

\* file handles while drives are mounted and unmounted
NextHandle ==
    \/ VfsInit
    \/ VfsMount
    \/ VfsFileOpen
    \/ VfsFileClose
    \/ VfsFileRead
    \/ VfsFileWrite
    \/ VfsFileSeek

\* the tables whose first drive is a flat filesystem, which has no unmount,
\* or a littlefs drive whose lfs_t this layer allocates and frees
InitHandle == Init /\ table[1].type \in {"FS_JESFS", "FS_LITTLEFS"}

SpecHandle == InitHandle /\ [][NextHandle]_vars

Next ==
    \/ NextMount
    \/ NextPath
    \/ NextFile
    \/ NextDir

Spec == Init /\ [][Next]_vars

(***************************************************************************)
(* Functions without side effects: the wildcard matcher as vfs_findnext    *)
(* calls it, and the inode macros of vfs.h.  Init draws the arguments, the *)
(* action applies the function.                                            *)
(***************************************************************************)
MaxPatLen == 3
MaxNameLen == 3
MaxField == 1

\* patterns and names over a small alphabet up to the bounds, and those of
\* the examples of the wildcard syntax
MatchInputs ==
    LET SeqsOver(S, n) == UNION {[1..k -> S] : k \in 0..n}
        Examples ==
            { <<"*", ".", "t", "x", "t">>, <<"a", ".", "t", "x", "t">>, <<".", "t", "x", "t">>,
              <<"a", ".", "t", "x">>, <<"a", "?", "c">>, <<"a", "b", "c">>, <<"a", "c">>,
              <<"a", "b", "b", "c">>, <<"*">>, <<>>, <<"a", "*", "b", "*", "c">>,
              <<"a", "X", "b", "Y", "c">>, <<"a", "c", "b">> }
    IN  (SeqsOver({"a", "B", "?", "*"}, MaxPatLen) \X SeqsOver({"A", "b"}, MaxNameLen))
            \cup (Examples \X Examples)

\* pattern_matching(dir->pattern, info->name, 0, 0)
PatternMatching ==
    /\ pure.op = "pattern_matching" /\ ~pure.done
    /\ pure' = Pure(pure.op, pure.in, TRUE, pattern_matching(pure.in[1], pure.in[2], 0, 0))
    /\ UNCHANGED <<table, index, namelen, fs, heapLive, inited, file, backendOpen, dir, dirsOpen, lastCall>>

\* the inode made of storage s, folder f and item i, each within its width:
\* s * 2^(FOLDER_BITS + ITEM_BITS) + f * 2^ITEM_BITS + i, a sum without carry
InodeOf(c, s, f, i) ==
    Shl(Bits(s), c.INODE_FOLDER_BITS + INODE_ITEM_BITS(c)) \cup Shl(Bits(f), INODE_ITEM_BITS(c)) \cup Bits(i)

\* c: the configured widths, vfs.h by default or vfs_conf_template.h; the
\* fields take the lowest and the highest values of their widths
InodeInputs ==
    LET FieldValues(w) ==
            {n \in (0..MaxField) \cup {2^w - 1 - k : k \in 0..MaxField} : n >= 0 /\ n < 2^w}
    IN  UNION {{[cfg |-> c, storage |-> s, folder |-> f, item |-> i] :
                  s \in FieldValues(c.INODE_STORAGE_BITS),
                  f \in FieldValues(c.INODE_FOLDER_BITS),
                  i \in FieldValues(INODE_ITEM_BITS(c))} :
               c \in InodeConfigs}

\* INODE_STORAGE(x), INODE_FOLDER(x) and x & INODE_ITEM_MASK of an inode x
InodeDecode ==
    /\ pure.op = "inode" /\ ~pure.done
    /\ pure' = Pure(pure.op, pure.in, TRUE,
                    [storage |-> INODE_STORAGE(pure.in.cfg, InodeOf(pure.in.cfg, pure.in.storage, pure.in.folder, pure.in.item)),
                     folder |-> INODE_FOLDER(pure.in.cfg, InodeOf(pure.in.cfg, pure.in.storage, pure.in.folder, pure.in.item)),
                     item |-> InodeOf(pure.in.cfg, pure.in.storage, pure.in.folder, pure.in.item) \cap INODE_ITEM_MASK(pure.in.cfg)])
    /\ UNCHANGED <<table, index, namelen, fs, heapLive, inited, file, backendOpen, dir, dirsOpen, lastCall>>

(***************************************************************************)
(* Timestamp codec.  A time_t is held as whole days since the epoch and    *)
(* seconds within the day (its value is days * 86400 + secs); the FAT date *)
(* and time words are 16-bit numbers.                                      *)
(***************************************************************************)
MaxYears == 2

Time(days, secs) == [days |-> days, secs |-> secs]

\* __isleap(y)
isleap(y) == y % 4 = 0 /\ (y % 100 # 0 \/ y % 400 = 0)

\* vMonths[leap][x], x from 0
vMonths(leap, x) ==
    IF leap THEN <<31, 29, 31, 30, 31, 30, 31, 31, 30, 31, 30, 31>>[x + 1]
    ELSE <<31, 28, 31, 30, 31, 30, 31, 31, 30, 31, 30, 31>>[x + 1]

\* for (; y < x; y++) t += __isleap(y) ? 366 : 365;  the sum the loop makes:
\* 365 for each year of y..x-1 and one more for each leap year among them
years_loop(y, x, t) ==
    IF y < x THEN t + 365 * (x - y) + Cardinality({z \in y..(x - 1) : isleap(z)}) ELSE t

\* for (x = 0; x < month - 1; x++) t += vMonths[__isleap(y)][x];
RECURSIVE months_loop(_, _, _, _)
months_loop(x, month, y, t) ==
    IF x < month - 1 THEN months_loop(x + 1, month, y, t + vMonths(isleap(y), x)) ELSE t

\* the fields of the date word n and of the time word n
DateFields(n) == [year |-> ((n \div 512) % 128) + 1980, month |-> (n \div 32) % 16, day |-> n % 32]
TimeFields(n) == [hour |-> (n \div 2048) % 32, minute |-> (n \div 32) % 64, sec2 |-> n % 32]

\* _ff_timestamp(info, modified); after the loop over the years y = x,
\* since x >= 1980
ff_timestamp(fdate, ftime) ==
    Time(months_loop(0, DateFields(fdate).month, DateFields(fdate).year,
                     IF DateFields(fdate).year > 2018
                     THEN years_loop(2018, DateFields(fdate).year, 1514764800 \div 86400)
                     ELSE years_loop(1970, DateFields(fdate).year, 0))
            + DateFields(fdate).day - 1,
         3600 * TimeFields(ftime).hour + 60 * TimeFields(ftime).minute + 2 * TimeFields(ftime).sec2)

\* gmtime(): the year holding day d counted from 1 January of year y (the
\* search starts at a year that is not after it), and the month holding
\* day d counted from the first of month m (from 0)
RECURSIVE gm_year(_, _)
gm_year(d, y) ==
    IF d >= (IF isleap(y) THEN 366 ELSE 365)
    THEN gm_year(d - (IF isleap(y) THEN 366 ELSE 365), y + 1)
    ELSE [year |-> y, yday |-> d]

RECURSIVE gm_month(_, _, _)
gm_month(d, m, leap) ==
    IF d >= vMonths(leap, m) THEN gm_month(d - vMonths(leap, m), m + 1, leap)
    ELSE [mon |-> m, mday |-> d + 1]

gmtime(t) ==
    LET d  == t.days + (t.secs \div 86400)
        s  == t.secs % 86400
        y0 == 1970 + (d \div 366)
        yr == gm_year(d - years_loop(1970, y0, 0), y0)
        mo == gm_month(yr.yday, 0, isleap(yr.year))
    IN  [tm_year |-> yr.year - 1900, tm_mon |-> mo.mon, tm_mday |-> mo.mday,
         tm_hour |-> s \div 3600, tm_min |-> (s % 3600) \div 60, tm_sec |-> s % 60]

\* _ff_fat_timedate(info, julian, modified): the date and time words written
fat_date(p) ==
    IF p.tm_year > 80
    THEN (((p.tm_year - 80) % 128) * 512 + (p.tm_mon + 1) * 32 + p.tm_mday) % 65536
    ELSE 0

ff_fat_timedate(julian) ==
    [fdate |-> fat_date(gmtime(julian)),
     ftime |-> (gmtime(julian).tm_hour * 2048 + gmtime(julian).tm_min * 32
                    + (gmtime(julian).tm_sec \div 2)) % 65536]

\* the years the codec is exercised on: the first and the last of the range
\* of the date word, and those around the fast path, a century and 2038
CodecYears ==
    {1980 + k : k \in 0..MaxYears} \cup {2107 - k : k \in 0..MaxYears}
        \cup {2000, 2018, 2019, 2038, 2100}

\* date and time words with their fields at the ends of their ranges
TimestampInputs ==
    {[fdate |-> (y - 1980) * 512 + m * 32 + d, ftime |-> h * 2048 + mi * 32 + s] :
        y \in CodecYears, m \in {1, 2, 3, 12}, d \in {1, 28},
        h \in {0, 23}, mi \in {0, 59}, s \in {0, 29}}

\* epoch times: the first and the last second of years before and within
\* the range of the date word
JulianInputs ==
    {Time(years_loop(1970, y, 0) + d, s) :
        y \in {1970, 1979} \cup CodecYears, d \in {0, 58, 59, 364}, s \in {0, 86399}}

\* _ff_timestamp followed by _ff_fat_timedate on the same FILINFO
TimestampRoundTrip ==
    /\ pure.op = "timestamp" /\ ~pure.done
    /\ pure' = Pure(pure.op, pure.in, TRUE, ff_fat_timedate(ff_timestamp(pure.in.fdate, pure.in.ftime)))
    /\ UNCHANGED <<table, index, namelen, fs, heapLive, inited, file, backendOpen, dir, dirsOpen, lastCall>>

\* _ff_fat_timedate(info, julian, modified)
FatTimedate ==
    /\ pure.op = "fat_timedate" /\ ~pure.done
    /\ pure' = Pure(pure.op, pure.in, TRUE, ff_fat_timedate(pure.in))
    /\ UNCHANGED <<table, index, namelen, fs, heapLive, inited, file, backendOpen, dir, dirsOpen, lastCall>>

(***************************************************************************)
(* Checksum accumulator and whole-file checksum.  A file is the sequence   *)
(* of its bytes; the words of a buffer are read least significant byte     *)
(* first.                                                                  *)
(***************************************************************************)
MaxFileLen == 4
BufSize == 128

Xor(a, b) == (a \ b) \cup (b \ a)

\* Nibble lookup table for the 0x04C11DB7 polynomial
CrcTable ==
    << 0, 79764919, 159529838, 222504665, 319059676, 398814059, 445009330, 507990021,
       638119352, 583659535, 797628118, 726387553, 890018660, 835552979, 1015980042, 944750013 >>

\* *pCrc = (*pCrc << 4) ^ CrcTable[*pCrc >> 28], k times
RECURSIVE crc_rounds(_, _)
crc_rounds(c, k) ==
    IF k = 0 THEN c
    ELSE crc_rounds(Xor(Shl(c, 4),
                        Bits(CrcTable[1 + (IF 28 \in c THEN 1 ELSE 0) + (IF 29 \in c THEN 2 ELSE 0)
                                        + (IF 30 \in c THEN 4 ELSE 0) + (IF 31 \in c THEN 8 ELSE 0)])),
                    k - 1)

\* while (n < vLen) { *pCrc ^= pUint32[n]; eight rounds; n++; } on the
\* 32-bit register c
RECURSIVE crc_words(_, _, _, _)
crc_words(c, pUint32, vLen, n) ==
    IF c \subseteq UINT32_MAX /\ n < vLen
    THEN crc_words(crc_rounds(Xor(c, pUint32[n + 1]), 8), pUint32, vLen, n + 1)
    ELSE c

CRC_FUNC(crc, pUint32, vLen, vInit) ==
    crc_words(IF vInit THEN UINT32_MAX ELSE crc, pUint32, vLen, 0)

\* (uint32_t*)&buf: word k of the buffer; the bytes past ret are zero
WordsOf(buf) ==
    [k \in 1..((Len(buf) + 3) \div 4) |->
        UNION {Shl(Bits(IF 4 * (k - 1) + j + 1 <= Len(buf) THEN buf[4 * (k - 1) + j + 1] ELSE 0), 8 * j) :
                 j \in 0..3}]

CrcRes(ret, crc, words) == [ret |-> ret, crc |-> crc, words |-> words]

\* while (ret = vfs_file_read(&x.src, buf, sizeof(buf)), ret > 0): the reads
\* return the bytes left, at most sizeof(buf); readRet < 0 is a failing read
RECURSIVE crc_read_loop(_, _, _, _, _)
crc_read_loop(content, off, crc, words, readRet) ==
    IF readRet < 0 THEN CrcRes(readRet, crc, words)
    ELSE IF Min(BufSize, Len(content) - off) > 0
    THEN crc_read_loop(content, off + Min(BufSize, Len(content) - off),
                       CRC_FUNC(crc, WordsOf(SubSeq(content, off + 1, off + Min(BufSize, Len(content) - off))),
                                Min(BufSize, Len(content) - off) \div 4, FALSE),
                       words + (Min(BufSize, Len(content) - off) \div 4), readRet)
    ELSE CrcRes(0, crc, words)

\* vfs_crc(path, crc) on a file of the given content; statRet, openRet and
\* readRet are the results of vfs_stat, vfs_file_open and vfs_file_read
vfs_crc(content, prior, statRet, openRet, readRet) ==
    IF statRet # 0 THEN CrcRes(statRet, prior, 0)
    ELSE IF openRet # 0
    THEN CrcRes(openRet, CRC_FUNC(prior, <<Bits(Len(content)), {}>>, 2, TRUE), 0)
    ELSE crc_read_loop(content, 0, CRC_FUNC(prior, <<Bits(Len(content)), {}>>, 2, TRUE), 0, readRet)

\* files over two byte values up to the bound, files around the size of the
\* read buffer, and a file of three bytes picked for its checksum
CrcFiles ==
    UNION {[1..k -> {0, 255}] : k \in 0..MaxFileLen}
        \cup {[k \in 1..n |-> 1] : n \in {BufSize - 1, BufSize, BufSize + 1, BufSize + 4}}
        \cup {<<120, 195, 183>>}

\* the value of *crc before the call, and the outcomes of the calls made
CrcInputs ==
    {[content |-> f, prior |-> p, statRet |-> 0, openRet |-> 0, readRet |-> 0] :
        f \in CrcFiles, p \in {{}, UINT32_MAX, Bits(1)}}
    \cup {[content |-> f, prior |-> {}, statRet |-> e[1], openRet |-> e[2], readRet |-> e[3]] :
            f \in CrcFiles, e \in {<<-ENOENT, 0, 0>>, <<0, -EMFILE, 0>>, <<0, 0, -EIO>>}}

\* vfs_crc(path, &crc)
VfsCrc ==
    /\ pure.op = "crc" /\ ~pure.done
    /\ pure' = Pure(pure.op, pure.in, TRUE,
                    vfs_crc(pure.in.content, pure.in.prior, pure.in.statRet, pure.in.openRet, pure.in.readRet))
    /\ UNCHANGED <<table, index, namelen, fs, heapLive, inited, file, backendOpen, dir, dirsOpen, lastCall>>

(***************************************************************************)
(* The error translators applied to the codes of the backends: FRESULT is  *)
(* 0 (FR_OK) to 19 (FR_INVALID_PARAMETER), the flat filesystem reports     *)
(* -100 to -148; MaxUnknown codes beyond each range stand for the codes    *)
(* that have no case.                                                      *)
(***************************************************************************)
MaxUnknown == 1

\* _ff_errno(err)
FfErrno ==
    /\ pure.op = "_ff_errno" /\ ~pure.done
    /\ pure' = Pure(pure.op, pure.in, TRUE, ff_errno(pure.in))
    /\ UNCHANGED <<table, index, namelen, fs, heapLive, inited, file, backendOpen, dir, dirsOpen, lastCall>>

\* _jes_errno(err)
JesErrno ==
    /\ pure.op = "_jes_errno" /\ ~pure.done
    /\ pure' = Pure(pure.op, pure.in, TRUE, jes_errno(pure.in))
    /\ UNCHANGED <<table, index, namelen, fs, heapLive, inited, file, backendOpen, dir, dirsOpen, lastCall>>

InitPure ==
    /\ table = <<Entry(DriveA, "FS_JESFS", TRUE, TRUE, "na")>>
    /\ index = [i \in Pos |-> 0]
    /\ namelen = [i \in Pos |-> 0]
    /\ fs = [i \in Pos |-> table[i + 1].fs0]
    /\ heapLive = [i \in Pos |-> 0]
    /\ inited = FALSE
    /\ file = NoFile
    /\ backendOpen = 0
    /\ dir = NoDir
    /\ dirsOpen = 0
    /\ lastCall = NoCall
    /\ pure \in {Pure("pattern_matching", in, FALSE, FALSE) : in \in MatchInputs}
                \cup {Pure("inode", in, FALSE, FALSE) : in \in InodeInputs}
                \cup {Pure("timestamp", in, FALSE, FALSE) : in \in TimestampInputs}
                \cup {Pure("fat_timedate", in, FALSE, FALSE) : in \in JulianInputs}
                \cup {Pure("crc", in, FALSE, FALSE) : in \in CrcInputs}
                \cup {Pure("_ff_errno", err, FALSE, FALSE) : err \in 0..(19 + MaxUnknown)}
                \cup {Pure("_jes_errno", err, FALSE, FALSE) :
                         err \in ((-148 - MaxUnknown)..(-100 + MaxUnknown)) \cup (-1..MaxUnknown)}

NextPure ==
    \/ PatternMatching
    \/ InodeDecode
    \/ TimestampRoundTrip
    \/ FatTimedate
    \/ VfsCrc
    \/ FfErrno
    \/ JesErrno

SpecPure == InitPure /\ [][NextPure]_vars

(***************************************************************************)
(* Mount lifecycle.                                                        *)
(***************************************************************************)
MountCall(m) == lastCall.op = "mount" /\ lastCall.flag = m /\ lastCall.entry >= 0

BackendReached == lastCall.backend # <<>>

HasCallback(i) == table[i + 1].eventcb

\* C8: a vfs_mount(prefix, true) during which the backend reports an error
\* delivers exactly one MOUNT_FAILED event (and no MOUNTED event) to the
\* entry's callback and leaves the entry's index 0, whatever the backend
\* kind and the index before the call.
C8_MountFailClaim ==
    (MountCall(TRUE) /\ BackendReached /\ lastCall.ret # 0) =>
        /\ index[lastCall.entry] = 0
        /\ HasCallback(lastCall.entry) =>
              lastCall.events = <<Event(lastCall.entry, "EVT_MOUNT_FAIL", 0)>>

\* C9: a vfs_mount(prefix, true) whose backend mount succeeds delivers exactly
\* one MOUNTED event, the index is position + 1 at the time of the callback
\* and afterwards, and an entry never holds more than one block allocated by
\* this layer (the backend state is allocated on first use only).
C9_MountSuccess ==
    /\ (MountCall(TRUE) /\ BackendReached /\ lastCall.ret = 0) =>
          /\ index[lastCall.entry] = lastCall.entry + 1
          /\ HasCallback(lastCall.entry) =>
                lastCall.events = <<Event(lastCall.entry, "EVT_MOUNT", lastCall.entry + 1)>>
          /\ ~HasCallback(lastCall.entry) => lastCall.events = <<>>
    /\ \A i \in Pos : /\ heapLive[i] <= 1
                      /\ heapLive[i] = 1 <=> fs[i] = "heap"

\* a successful mount of an entry whose state this layer allocated
C9_Witness ==
    /\ MountCall(TRUE) /\ BackendReached /\ lastCall.ret = 0
    /\ HasCallback(lastCall.entry)
    /\ fs[lastCall.entry] = "heap"
    /\ lastCall.events = <<Event(lastCall.entry, "EVT_MOUNT", lastCall.entry + 1)>>

\* C10: every vfs_mount(prefix, false) that takes the index of an entry from
\* position + 1 to 0 delivers exactly one UNMOUNTED event to that entry's
\* callback, also when the backend unmount reports an error, and no
\* vfs_mount call delivers more than one event.
C10_OneEventPerTransition ==
    [][ /\ Len(lastCall'.events) <= 1 \/ lastCall'.op # "mount"
        /\ \A i \in Pos :
             ( /\ lastCall'.op = "mount" /\ ~lastCall'.flag /\ lastCall'.entry = i
               /\ HasCallback(i)
               /\ index[i] = i + 1 /\ index'[i] = 0 )
             => lastCall'.events = <<Event(i, "EVT_UNMOUNT", 0)>> ]_vars

(***************************************************************************)
(* Path resolution.                                                        *)
(***************************************************************************)
\* the calls that resolve lastCall.path, and the force argument they pass
Resolving == lastCall.op \in PathOpNames \cup {"mount", "open", "dir_open", "findfirst"}
ForceOf == lastCall.op = "mount"

\* the drive prefix of entry i is the start of path, letter case ignored
PrefixMatches(path, i) ==
    /\ path # NullPath
    /\ Len(path) >= Len(table[i + 1].drive)
    /\ \A k \in 1..Len(table[i + 1].drive) : tolower(path[k]) = tolower(table[i + 1].drive[k])

Accepted(path, force) == {i \in Pos : PrefixMatches(path, i) /\ (force \/ index[i] = i + 1)}

Least(S) == CHOOSE i \in S : \A j \in S : i <= j

NoSeparator(path) == path # NullPath /\ \A k \in 1..Len(path) : path[k] # ":"

\* C1 as stated: find_entry returns the first entry in registration order
\* whose prefix starts the path and that is mounted or forced, and Not-Found
\* when there is no such entry.
C1_FirstAcceptedOrNotFound ==
    Resolving =>
        lastCall.entry = IF Accepted(lastCall.path, ForceOf) # {}
                         THEN Least(Accepted(lastCall.path, ForceOf))
                         ELSE -ENOENT

\* C1 amended: as C1, but when no entry is accepted, exactly one drive is
\* registered and the path holds no ':', find_entry returns 0 instead of
\* Not-Found.
C1_FirstAcceptedOrSoleDrive ==
    Resolving =>
        lastCall.entry = IF Accepted(lastCall.path, ForceOf) # {}
                         THEN Least(Accepted(lastCall.path, ForceOf))
                         ELSE IF N = 1 /\ NoSeparator(lastCall.path) THEN 0
                         ELSE -ENOENT

\* a lower-case prefix resolves to the first of two mounted drives
C1_Witness ==
    /\ lastCall.op \in PathOpNames
    /\ lastCall.path = <<"a", ":", "/", "x">>
    /\ lastCall.entry = 0
    /\ N = 2
    /\ \A i \in Pos : index[i] = i + 1

\* the entry a path designates: the first whose prefix starts the path, or
\* the only registered drive for a path without ':'
Designates(path, i) ==
    IF \E j \in Pos : PrefixMatches(path, j)
    THEN i = Least({j \in Pos : PrefixMatches(path, j)})
    ELSE N = 1 /\ NoSeparator(path) /\ i = 0

\* C2: a path-resolving operation on a path that designates an unmounted
\* drive returns Not-Found and calls no backend function.
C2_UnmountedRejects ==
    \A i \in Pos :
        ( /\ lastCall.op \in PathOpNames \cup {"open", "dir_open"}
          /\ Designates(lastCall.path, i)
          /\ index[i] = 0 )
        => (lastCall.ret = -ENOENT /\ lastCall.backend = <<>>)

\* C3: with exactly one registered drive a path without ':' resolves to
\* entry 0; with two or more drives a path that starts with no registered
\* prefix resolves to Not-Found.
C3_PrefixOmissible ==
    (Resolving /\ lastCall.path # NullPath) =>
        /\ (N = 1 /\ NoSeparator(lastCall.path)) => lastCall.entry = 0
        /\ (N >= 2 /\ \A i \in Pos : ~PrefixMatches(lastCall.path, i)) => lastCall.entry = -ENOENT

\* "/x" resolved against the only registered drive
C3_Witness ==
    /\ lastCall.op \in PathOpNames
    /\ N = 1
    /\ lastCall.path = <<"/", "x">>
    /\ lastCall.entry = 0


(***************************************************************************)
(* File handle claims, checked under SpecFile.                             *)
(***************************************************************************)
OpenCall == lastCall.op = "open"

\* C4 (as stated): whenever vfs_file_open returns a negative result (drive
\* not found or unmounted, bare mount root rejected, backend open error) the
\* handle's owning-entry reference is null when the call returns.
C4_FailedOpenClearsEntry ==
    (OpenCall /\ lastCall.ret < 0) => file.filesys = Null

HandleOps == {"read", "write", "seek", "tell", "size", "close"}

\* C5 (as stated): vfs_file_close leaves the handle's entry reference null
\* whatever the backend close returns, and every later read, write, seek,
\* tell, size or second close on that handle returns an error and reaches no
\* backend.
C5_ClosedHandleFails ==
    /\ (lastCall.op = "close" => file.filesys = Null)
    /\ (lastCall.op \in HandleOps /\ lastCall.entry = Null)
          => (lastCall.ret < 0 /\ lastCall.backend = <<>>)

\* C6: through any sequence of open and close calls, failed opens included,
\* a successful open leaves exactly one backend file object open, a failed
\* open leaves none, and a close releases the one the handle held, so that
\* no backend file object is open once the handle is closed.
C6_NoBackendHandleLeak ==
    /\ backendOpen = (IF file.held THEN 1 ELSE 0)
    /\ (OpenCall => (file.held <=> lastCall.ret = 0))
    /\ (lastCall.op = "close" => (~file.held /\ backendOpen = 0))

\* a close, failed in the backend, of a handle that held an open file
C6_Witness ==
    /\ lastCall.op = "close"
    /\ lastCall.flag
    /\ lastCall.ret < 0
    /\ backendOpen = 0

(***************************************************************************)
(* Directory search claims, checked under SpecDir.                         *)
(***************************************************************************)
FindFirstCall == lastCall.op = "findfirst"

\* backend directory closes among the calls of the last operation
BackendCloses ==
    Cardinality({k \in DOMAIN lastCall.backend : lastCall.backend[k] \in {"f_closedir", "lfs_dir_close"}})

\* the resolved entry's backend has a directory object to open and close
HasDirObject == TypeOf(lastCall.entry) \in {"FS_FATFS", "FS_LITTLEFS"}

\* non-zero result: nothing is left open; 0: the directory stays open
FindFirstLeavesOpenIffZero ==
    /\ lastCall.ret # 0 => (~dir.held /\ dirsOpen = 0)
    /\ lastCall.ret = 0 =>
          /\ dir.held /\ dir.filesys # Null
          /\ BackendCloses = 0
          /\ dirsOpen = (IF HasDirObject THEN 1 ELSE 0)

\* C7 (as stated): when vfs_findfirst opened the directory and its first
\* search finds no match, the handle is closed with one backend close and a
\* null entry reference before the non-zero return; a non-zero return leaves
\* no directory open and a return of 0 leaves the directory open.
C7_FailedFindClosesOnce ==
    FindFirstCall =>
        /\ FindFirstLeavesOpenIffZero
        /\ (lastCall.flag /\ lastCall.ret # 0) => (dir.filesys = Null /\ BackendCloses = 1)

\* C7 (amended): as stated, except that the backend close happens on the
\* backends that have a directory object (FAT, littlefs); on the flat
\* backend and on the root listing the handle is closed by this layer alone.
C7_FailedFindCloses ==
    FindFirstCall =>
        /\ FindFirstLeavesOpenIffZero
        /\ (lastCall.flag /\ lastCall.ret # 0) =>
              (dir.filesys = Null /\ BackendCloses = (IF HasDirObject THEN 1 ELSE 0))

\* a search of an opened FAT or littlefs directory that matched nothing
C7_Witness ==
    /\ FindFirstCall
    /\ lastCall.flag
    /\ lastCall.ret = -1
    /\ HasDirObject
    /\ BackendCloses = 1
    /\ Len(lastCall.backend) >= 4
    /\ dir.filesys = Null

(***************************************************************************)
(* Unmount, checked under SpecMount.                                       *)
(***************************************************************************)
UnmountNames == {"f_mount(nullptr)", "lfs_unmount"}
MountNames == {"f_mount", "lfs_mount", "fs_start"}

CallsAny(S) == \E k \in DOMAIN lastCall.backend : lastCall.backend[k] \in S

\* C11 (as stated): after vfs_mount(prefix, false) on a registered prefix,
\* whatever the backend kind, the backend unmount was invoked, no backend
\* mount or start was invoked, and the entry's index is 0.
C11_UnmountClaim ==
    (MountCall(FALSE) /\ lastCall.path = table[lastCall.entry + 1].drive) =>
        /\ CallsAny(UnmountNames)
        /\ ~CallsAny(MountNames)
        /\ index[lastCall.entry] = 0

(***************************************************************************)
(* File open and seek claims, checked under SpecFile.                      *)
(***************************************************************************)
\* path is the prefix of entry i alone, in any letter case, or the prefix
\* and one separator: the paths vfs_stat takes for the mount root
MountRootPath(path, i) ==
    /\ PrefixMatches(path, i)
    /\ \/ Len(path) = Len(table[i + 1].drive)
       \/ /\ Len(path) = Len(table[i + 1].drive) + 1
          /\ path[Len(path)] \in {"/", "\\"}

\* C12 (as stated): vfs_file_open on a path that designates only the mount
\* root of a mounted drive returns Bad-Handle and performs no backend open.
C12_RootOpenRejected ==
    (OpenCall /\ lastCall.entry >= 0 /\ MountRootPath(lastCall.path, lastCall.entry)) =>
        (lastCall.ret = -EBADF /\ lastCall.backend = <<>>)

\* the absolute target of the seek just made, from the position and size the
\* file had before the call
SeekTarget(before, args) ==
    CASE args[1] = "SEEK_SET" -> Len(args) - 1
      [] args[1] = "SEEK_CUR" -> before.pos + Len(args) - 1
      [] OTHER -> before.size + Len(args) - 1

\* C13 (as stated): vfs_file_seek on an open file computes the target as
\* offset (SET), position + offset (CUR) or size + offset (END), asks the
\* backend to move there, returns 0 when the resulting position is the target
\* and No-Space when the backend seek succeeded but the position differs;
\* any other result is a backend error.
C13_SeekTarget ==
    [][ ( /\ lastCall'.op = "seek"
          /\ file.held /\ file.filesys >= 0
          /\ lastCall'.path[1] \in {"SEEK_SET", "SEEK_CUR", "SEEK_END"} )
        => /\ lastCall'.backend # <<>>
           /\ lastCall'.ret <= 0
           /\ lastCall'.ret = 0 => file'.pos = SeekTarget(file, lastCall'.path)
           /\ lastCall'.ret = -ENOSPC => file'.pos # SeekTarget(file, lastCall'.path) ]_vars

\* the calls and writes that move the position of the file just opened
Repositions == {"f_lseek", "lfs_file_seek", "file_pos = file_len"}

\* C14 (as stated): after a successful vfs_file_open with the APPEND flag the
\* handle's position equals the file's size on every backend kind; when the
\* open fails no repositioning is performed on the handle.
C14_AppendAtEnd ==
    (OpenCall /\ lastCall.flag) =>
        /\ lastCall.ret = 0 => file.pos = file.size
        /\ lastCall.ret # 0 => ~CallsAny(Repositions)

(***************************************************************************)
(* vfs_stat on a mount root, checked under SpecPath.                       *)
(***************************************************************************)
ItemStats == {"f_stat", "lfs_stat", "fs_open"}

\* C15 (as stated): vfs_stat on a bare mount-root path of a mounted drive
\* returns 0 with the DIRECTORY attribute, device = the drive's index
\* (position + 1) and block size, block count and used size taken from the
\* volume, without a call of the backend's per-item stat, whatever the
\* backend kind.
C15_RootStat ==
    ( /\ lastCall.op = "stat" /\ lastCall.entry >= 0
      /\ MountRootPath(lastCall.path, lastCall.entry)
      /\ index[lastCall.entry] = lastCall.entry + 1 )
    => /\ lastCall.ret = 0
       /\ "ATR_DIR" \in lastCall.out.attrib
       /\ lastCall.out.device = lastCall.entry + 1
       /\ VolumeFields \subseteq lastCall.out.set
       /\ ~CallsAny(ItemStats)

(***************************************************************************)
(* The root listing, checked under SpecDir.                                *)
(***************************************************************************)
\* C16 (as stated): vfs_dir_open with an empty or null path opens the Root
\* pseudo-filesystem and returns 0 in every drive-table configuration, a
\* table with exactly one registered drive included, and opens no backend
\* directory.
C16_EmptyPathOpensRoot ==
    (lastCall.op = "dir_open" /\ lastCall.path \in {<<>>, NullPath}) =>
        /\ lastCall.ret = 0
        /\ dir.filesys = RootSys
        /\ lastCall.backend = <<>>

\* a vfs_dir_read made on a handle of the Root pseudo-filesystem
RootRead == lastCall.op = "dir_read" /\ lastCall.entry = RootSys

Mounted(i) == index[i] = i + 1

\* C17 (as stated): a dir_read of a Root pseudo-directory returns the
\* drives in registration order, each named by its prefix, and only drives
\* that are mounted at the time of the read: an entry whose index is 0 is
\* never returned, and the end is reported only once no mounted drive is
\* left.
C17_RootListsMounted ==
    RootRead =>
        /\ lastCall.ret = 0 =>
              /\ dir.root \in 1..N
              /\ lastCall.path = table[dir.root].drive
              /\ Mounted(dir.root - 1)
        /\ lastCall.ret # 0 => \A i \in Pos : Mounted(i) => i < dir.root

\* C18 (as stated): a dir_read of a Root pseudo-directory whose entries have
\* all been returned gives the Not-Found error code, on the first such read
\* and on every further one, and neither advances the cursor nor modifies
\* the drive table.
C18_RootExhausted ==
    [][ (lastCall'.op = "dir_read" /\ dir.filesys = RootSys /\ dir.root >= N) =>
            /\ lastCall'.ret = -ENOENT
            /\ dir' = dir
            /\ UNCHANGED <<table, index, namelen, fs>> ]_vars

(***************************************************************************)
(* The wildcard matcher and the inode macros, checked under SpecPure.      *)
(***************************************************************************)
\* the capital of a letter, for the comparison of literals
Capital(c) ==
    CASE c = "a" -> "A" [] c = "b" -> "B" [] c = "c" -> "C"
      [] c = "t" -> "T" [] c = "x" -> "X" [] c = "y" -> "Y"
      [] OTHER -> c

\* reference glob semantics: the pattern from position i on matches the name
\* from position j on
RECURSIVE Glob(_, _, _, _)
Glob(pat, nam, i, j) ==
    IF i > Len(pat) THEN j > Len(nam)
    ELSE IF pat[i] = "*"
         THEN Glob(pat, nam, i + 1, j) \/ (j <= Len(nam) /\ Glob(pat, nam, i, j + 1))
         ELSE /\ j <= Len(nam)
              /\ pat[i] = "?" \/ Capital(pat[i]) = Capital(nam[j])
              /\ Glob(pat, nam, i + 1, j + 1)

Matched == pure.op = "pattern_matching" /\ pure.done

ExampleMatches ==
    { << <<"*", ".", "t", "x", "t">>, <<"a", ".", "t", "x", "t">> >>,
      << <<"*", ".", "t", "x", "t">>, <<".", "t", "x", "t">> >>,
      << <<"a", "?", "c">>, <<"a", "b", "c">> >>,
      << <<"a", "*", "b", "*", "c">>, <<"a", "X", "b", "Y", "c">> >>,
      << <<"a", "*", "b", "*", "c">>, <<"a", "b", "c">> >> }

ExampleMismatches ==
    { << <<"*", ".", "t", "x", "t">>, <<"a", ".", "t", "x">> >>,
      << <<"a", "?", "c">>, <<"a", "c">> >>,
      << <<"a", "?", "c">>, <<"a", "b", "b", "c">> >>,
      << <<"a", "*", "b", "*", "c">>, <<"a", "c", "b">> >> }

\* C19: pattern_matching(pattern, name, 0, 0) is true exactly when name
\* matches pattern under glob semantics (literals compared without regard to
\* case, '?' one character, '*' zero or more characters, several wildcard
\* runs allowed); "*.txt" matches "a.txt" and ".txt" but not "a.tx", "a?c"
\* matches "abc" but not "ac" or "abbc", "*" matches every name, the empty
\* one included, and "a*b*c" matches "aXbYc" and "abc" but not "acb".
C19_GlobSemantics ==
    Matched =>
        /\ pure.out = Glob(pure.in[1], pure.in[2], 1, 1)
        /\ pure.in \in ExampleMatches => pure.out
        /\ pure.in \in ExampleMismatches => ~pure.out
        /\ pure.in[1] = <<"*">> => pure.out

\* "a*b*c" matched against "aXbYc": two wildcard runs between literals
C19_Witness ==
    /\ Matched
    /\ pure.in = << <<"a", "*", "b", "*", "c">>, <<"a", "X", "b", "Y", "c">> >>
    /\ pure.out

Decoded == pure.op = "inode" /\ pure.done

\* C20: for storage s, folder f and item i within the configured widths and
\* x = s * 2^(FOLDER_BITS + ITEM_BITS) + f * 2^ITEM_BITS + i, INODE_STORAGE(x)
\* is s, INODE_FOLDER(x) is f and x AND INODE_ITEM_MASK is i; the storage,
\* folder and item masks are pairwise disjoint and together cover all 32
\* bits.
C20_InodeRoundTrip ==
    Decoded =>
        /\ pure.out.storage = Bits(pure.in.storage)
        /\ pure.out.folder = Bits(pure.in.folder)
        /\ pure.out.item = Bits(pure.in.item)
        /\ INODE_STORAGE_MASK(pure.in.cfg) \cap INODE_FOLDER_MASK(pure.in.cfg) = {}
        /\ INODE_STORAGE_MASK(pure.in.cfg) \cap INODE_ITEM_MASK(pure.in.cfg) = {}
        /\ INODE_FOLDER_MASK(pure.in.cfg) \cap INODE_ITEM_MASK(pure.in.cfg) = {}
        /\ INODE_STORAGE_MASK(pure.in.cfg) \cup INODE_FOLDER_MASK(pure.in.cfg)
              \cup INODE_ITEM_MASK(pure.in.cfg) = UINT32_MAX

\* the highest storage, folder and item of the default widths, decoded
C20_Witness ==
    /\ Decoded
    /\ pure.in.cfg.INODE_STORAGE_BITS = 2
    /\ pure.in.storage = 3 /\ pure.in.folder = 1023 /\ pure.in.item = 1048575
    /\ pure.out.storage = {0, 1}
    /\ Cardinality(pure.out.folder) = 10
    /\ Cardinality(pure.out.item) = 20

(***************************************************************************)
(* The timestamp codec, checked under SpecPure.                            *)
(***************************************************************************)
RoundTripped == pure.op = "timestamp" /\ pure.done

\* C21 (as stated): for every year 1980..2107, month 1..12, day 1..28,
\* hour 0..23, minute 0..59 and 2-second unit 0..29, converting the compact
\* date/time pair to epoch time and back to the compact pair reproduces the
\* same year, month, day, hour, minute and 2-second fields.
C21_TimestampRoundTrip ==
    RoundTripped =>
        /\ DateFields(pure.out.fdate) = DateFields(pure.in.fdate)
        /\ TimeFields(pure.out.ftime) = TimeFields(pure.in.ftime)

Encoded == pure.op = "fat_timedate" /\ pure.done

SourceYear == gmtime(pure.in).tm_year + 1900

\* C27 (as stated): encoding an epoch time into the compact date word
\* yields the zero date word exactly when the source year predates 1980;
\* for every source year from 1980 (inclusive) to 2107 the year-offset,
\* month and day fields are written with year-offset = year - 1980.
C27_EncodeYearClamp ==
    Encoded =>
        /\ pure.out.fdate = 0 <=> SourceYear < 1980
        /\ (SourceYear >= 1980 /\ SourceYear <= 2107) =>
              DateFields(pure.out.fdate) =
                  [year |-> SourceYear, month |-> gmtime(pure.in).tm_mon + 1, day |-> gmtime(pure.in).tm_mday]

(***************************************************************************)
(* The whole-file checksum, checked under SpecPure.                        *)
(***************************************************************************)
Checksummed == pure.op = "crc" /\ pure.done /\ pure.out.ret = 0

CrcOf(content, prior) == vfs_crc(content, prior, 0, 0, 0).crc

\* C22 (as stated): vfs_crc on a file whose size and content are unchanged
\* returns the same checksum on every call, independent of the prior value
\* of the output variable, and appending one byte to the file changes the
\* checksum.
C22_CrcDeterminism ==
    Checksummed =>
        /\ \A prior \in {{}, UINT32_MAX, Bits(1)} : CrcOf(pure.in.content, prior) = pure.out.crc
        /\ \A b \in 0..255 : CrcOf(Append(pure.in.content, b), pure.in.prior) # pure.out.crc

\* the files of the same size that differ from content in one byte
OneByteChanged(content) ==
    {[content EXCEPT ![k] = b] : k \in 1..Len(content), b \in {0, 1, 255}} \ {content}

\* C28 (as stated): vfs_crc folds in the 64-bit size first and then every
\* content byte, each chunk read being passed as ceil(n/4) words with the
\* final partial word zero-padded, so two files of equal size that differ
\* in any single byte, one of the last (size mod 4) bytes included, get
\* different checksums.
C28_CrcEveryByte ==
    Checksummed =>
        /\ Len(pure.in.content) <= BufSize =>
              pure.out.words = (Len(pure.in.content) + 3) \div 4
        /\ \A other \in OneByteChanged(pure.in.content) :
              CrcOf(other, pure.in.prior) # pure.out.crc

(***************************************************************************)
(* The error translators, checked under SpecPure.                          *)
(***************************************************************************)
\* the codes of the error taxonomy
Taxonomy ==
    {ENOENT, EIO, ENXIO, EBADF, ENOMEM, EBUSY, EEXIST, ENODEV, ENOTDIR, EINVAL, EMFILE, ENOSPC,
     EROFS, ENOLCK, ETIMEDOUT, EDOOFUS}

\* a backend error code was translated: any FRESULT but FR_OK, any negative
\* code of the flat filesystem
TranslatedError ==
    /\ pure.done
    /\ \/ pure.op = "_ff_errno" /\ pure.in # 0
       \/ pure.op = "_jes_errno" /\ pure.in < 0

\* the codes that have a case with a code of their own
SpecificallyMapped ==
    IF pure.op = "_ff_errno" THEN pure.in \in 1..19
    ELSE pure.in \in {-108, -110, -111, -113, -124, -129, -139, -142, -143, -147, -148}

StatDone == lastCall.op = "stat" /\ lastCall.entry >= 0 /\ lastCall.ret = 0

\* info->attrib & flag
ReadsAsSet(f) == AttrBit[f] \in AttribByte(lastCall.out.attrib)

\* C24 (as stated): the nine attribute flags READABLE, WRITABLE, EXECUTABLE,
\* HIDDEN, SYSTEM, REGULAR, DIRECTORY, REMOVABLE and FLAT-FILESYSTEM are
\* pairwise distinct bits of the attribute bitmask, so that a stat result
\* with one flag set never reads as another flag being set.
C24_AttribBitsDistinct ==
    StatDone =>
        /\ \A f, g \in DOMAIN AttrBit : f # g => AttrBit[f] # AttrBit[g]
        /\ \A f \in DOMAIN AttrBit : ReadsAsSet(f) => f \in lastCall.out.attrib

(***************************************************************************)
(* File handles across an unmount, checked under SpecHandle.               *)
(***************************************************************************)
\* the last call was an unmount of the drive the open handle refers to
UnmountedUnderHandle ==
    /\ file.held /\ file.filesys >= 0
    /\ lastCall.op = "mount" /\ ~lastCall.flag /\ lastCall.entry = file.filesys
    /\ lastCall.ret = 0

\* C25 (as stated): in any sequence open(h) ... vfs_mount(prefix, false)
\* ... op(h), every read, write, seek or close on a handle opened before
\* the unmount returns an error and does not dispatch to backend state that
\* the unmount released.
C25_HandleBoundToMount ==
    [][ (UnmountedUnderHandle /\ lastCall'.op \in {"read", "write", "seek", "close"}) =>
            /\ lastCall'.ret < 0
            /\ lastCall'.backend = <<>> ]_vars

(***************************************************************************)
(* The inode of a directory entry, checked under SpecDir.                  *)
(***************************************************************************)
EntryRead == lastCall.op = "dir_read" /\ lastCall.ret = 0 /\ (lastCall.entry >= 0 \/ lastCall.entry = RootSys)

\* C26 (as stated): every FileInfo that dir_read returns, for Root entries
\* and for entries of every concrete backend, carries an inode whose
\* STORAGE field (INODE_STORAGE(inode), the highest INODE_STORAGE_BITS bits)
\* equals the owning drive's index, and whose ITEM field holds the
\* per-directory sequence or native id masked to INODE_ITEM_BITS.
C26_InodeStorageIsDrive ==
    EntryRead =>
        /\ "inode" \in lastCall.out.set
        /\ \A c \in InodeConfigs :
              /\ INODE_STORAGE(c, lastCall.out.inode[c]) = Bits(lastCall.out.device)
              /\ lastCall.entry >= 0 =>
                    lastCall.out.inode[c] \cap INODE_ITEM_MASK(c) = Bits(dir.pos - 1) \cap INODE_ITEM_MASK(c)

(***************************************************************************)
(* The mounted position of the drive entries, checked under SpecMount.     *)
(***************************************************************************)
\* C29 (as stated): in every state reachable by any sequence of
\* vfs_mount(prefix, true/false) calls on any backend kind, each drive entry
\* at table position i has index = 0 or index = i + 1, and index = i + 1
\* holds exactly when the most recent vfs_mount call on that entry was a
\* mount request whose backend mount succeeded.
C29_IndexTracksMount ==
    /\ \A i \in Pos : index[i] \in {0, i + 1}
    /\ (lastCall.op = "mount" /\ lastCall.entry >= 0) =>
          (index[lastCall.entry] = lastCall.entry + 1 <=> (lastCall.flag /\ lastCall.ret = 0))

(***************************************************************************)
(* Closing a directory handle, checked under SpecDir.                      *)
(***************************************************************************)
\* the handle is as a vfs_dir_open that returned 0 left it
DirJustOpened == lastCall.op = "dir_open" /\ lastCall.ret = 0

\* C30 (as stated): vfs_dir_close on any directory handle that vfs_dir_open
\* opened successfully, a handle on the Root pseudo-filesystem included,
\* returns 0 and clears the handle's entry reference.
C30_DirCloseSucceeds ==
    [][ (DirJustOpened /\ lastCall'.op = "dir_close") =>
            /\ lastCall'.ret = 0
            /\ dir'.filesys = Null ]_vars

====
